---- MODULE Spec2Model ----
(***************************************************************************)
(* A model of the rop3 stage-execution engine: the Result type             *)
(* (pkg/rop/result.go), the solo stage functions (pkg/rop/solo/solo.go),   *)
(* the mass adapters (pkg/rop/mass/mass.go), the Locomotive worker loop    *)
(* (core), the worker pools custom.Run / lite.Run and the drain helpers    *)
(* of package custom.                                                      *)
(*                                                                         *)
(* One pool is modelled: `lines` Locomotive goroutines share one input     *)
(* channel and one unbuffered output channel; every pulled input starts    *)
(* one adapter invocation (two goroutines, A running the stage function    *)
(* and B racing its result against ctx.Done()); a closer goroutine waits   *)
(* for the WaitGroup and closes the output; a consumer reads the output.   *)
(* An unbuffered send is a rendezvous: one action moves both parties.      *)
(***************************************************************************)
EXTENDS Integers, Sequences, FiniteSets, TLC

\* Bounds of the model.
MaxInputs == 2
MaxLines == 2

VARIABLES
  cfg,        \* the run's configuration, fixed at construction
  cancelled,  \* ctx.Done() is closed
  panicked,   \* "no", or the message of the panic that ended the process
  inHead,     \* index of the next item of the input channel
  outClosed,  \* the pool's output channel is closed
  wg,         \* the sync.WaitGroup counter
  pc,         \* pc[w]: position of Locomotive w
  cur,        \* cur[w]: `in`, the input Locomotive w pulled (index, 0 none)
  pr,         \* pr[w]: `pr`, the output Locomotive w holds
  din,        \* din[w]: `in` of CancelRemainingResults' range loop
  apc,        \* apc[i]: adapter goroutine A of input i
  bpc,        \* bpc[i]: adapter goroutine B of input i
  val,        \* val[i]: the outcome the stage function produced for i
  chClosed,   \* chClosed[i]: the adapter's inner channel ch is closed
  outCl,      \* outCl[i]: the adapter's returned channel out is closed
  cpc,        \* position of the consumer of the pool's output
  received,   \* what the consumer received, in order: [o, via]
  succLog,    \* the outputs onSuccess was called with, in order
  fcnt,       \* fcnt[i]: calls of the stage's success function for i
  ecnt,       \* ecnt[i]: calls of the stage's error / cancel function for i
  cb,         \* cb[i]: calls of the adapter's onCancel(ctx, input i)
  dlc,        \* dlc[i]: outcomes delivered on the adapter's returned channel
  cancAtCall, \* cancAtCall[i]: ctx was cancelled when the adapter was invoked
  hlog,       \* hlog[w]: the cancellation handlers Locomotive w invoked, in order
  srcHead,    \* pipeline: index of the next item of the source channel
  spc,        \* pipeline: spc[s][w], position of worker w of stage s
  sval,       \* pipeline: sval[s][w], the outcome worker w of stage s holds
  stClosed,   \* pipeline: stClosed[s], the output of stage s is closed
  fpc,        \* Finalizing, first goroutine: its position
  fval,       \* Finalizing, first goroutine: `res`, the value it holds
  fchClosed,  \* Finalizing: the inner channel ch is closed
  gpc,        \* Finalizing, second goroutine: its position
  gval,       \* Finalizing, second goroutine: `finalized`
  finClosed,  \* Finalizing: the returned channel out is closed
  finals,     \* what the reader of Finalizing's channel received, in order
  pipePanic,  \* pipeline: "no", or the message of the panic that ended it
  flog,       \* Finalizing, first goroutine: the cancel handlers it invoked
  glog,       \* Finalizing, second goroutine: the cancel handlers it invoked
  fcur,       \* Finalizing, first goroutine: `in`, the item it pulled (index)
  fdin,       \* Finalizing: `in` of OnCancelValues' range loop (index)
  fsent,      \* Finalizing: the values its forwarding loop sent on out
  fsucc,      \* Finalizing: the values onSuccessResult was called with
  frecv,      \* Finalizing: the outcomes its first goroutine received
  calc,       \* a synchronous call: [op, arg, res, calls, n]
  toChan      \* the goroutine of core.ToChanFromArgsResults and its channel

\* What only Finalizing's cancellation paths touch.
finVars == << flog, glog, fcur, fdin >>

\* What the forwarding loop of Finalizing did.
fwdObs == << fsent, fsucc, frecv >>

pipeVars == << srcHead, spc, sval, stClosed, fpc, fval, fchClosed, gpc, gval,
               finClosed, finals, pipePanic, finVars, fwdObs >>

\* What the pool's goroutines never touch.
auxVars == << pipeVars, calc, toChan >>

vars == << cfg, cancelled, panicked, inHead, outClosed, wg, pc, cur, pr, din,
           apc, bpc, val, chClosed, outCl, cpc, received, succLog,
           fcnt, ecnt, cb, dlc, cancAtCall, hlog, auxVars >>

\* What the pipeline and the synchronous calls never touch.
poolVars == << cancelled, panicked, inHead, outClosed, wg, pc, cur, pr, din,
               apc, bpc, val, chClosed, outCl, cpc, received, succLog,
               fcnt, ecnt, cb, dlc, cancAtCall, hlog >>

locoVars == << pc, cur, pr, din, wg, hlog >>
adVars == << apc, bpc, val, chClosed, outCl >>
obsVars == << fcnt, ecnt, cb, dlc, cancAtCall >>
sinkVars == << cpc, received >>

-----------------------------------------------------------------------------
(* rop.Result *)

NoErr == "nil"
ErrCancelled == "operation cancelled"
ZeroValue == 0

Success(r, nid) ==
  [id |-> nid, createdAt |-> 100 + nid, result |-> r, err |-> NoErr, isSuccess |-> TRUE,
   isCancel |-> FALSE, hasResult |-> TRUE, isProcessed |-> FALSE]

Fail(err, nid) ==
  [id |-> nid, createdAt |-> 100 + nid, result |-> ZeroValue, err |-> err, isSuccess |-> FALSE,
   isCancel |-> FALSE, hasResult |-> FALSE, isProcessed |-> FALSE]

Cancel(err, nid) ==
  [id |-> nid, createdAt |-> 100 + nid, result |-> ZeroValue, err |-> err, isSuccess |-> FALSE,
   isCancel |-> TRUE, hasResult |-> FALSE, isProcessed |-> FALSE]

\* Faulty variant: the outcome is marked Cancelled whatever `from` is
CancelFromMarked(from) ==
  [id |-> from.id, createdAt |-> from.createdAt, result |-> ZeroValue, err |-> from.err,
   isSuccess |-> from.isSuccess, isCancel |-> TRUE,
   hasResult |-> from.hasResult, isProcessed |-> FALSE]

CancelFrom(from) ==
  [id |-> from.id, createdAt |-> from.createdAt, result |-> ZeroValue, err |-> from.err,
   isSuccess |-> from.isSuccess, isCancel |-> from.isCancel,
   hasResult |-> from.hasResult, isProcessed |-> FALSE]

\* uuid.New(): an id no other outcome carries; createdAt is the time the
\* constructor ran, kept apart from the id.  Input i carries id i; the
\* outcome created at site k (1: by the stage, 2: by a drain helper) for
\* input i gets an id of its own.
NewId(i, site) == site * (MaxInputs + 1) + i

-----------------------------------------------------------------------------
(* The caller-supplied functions the stages are run with. *)

\* validate: rejects the value 1 (TestCustom_Integration).
ValidateFn(v) == [valid |-> v # 1, errMsg |-> "value should not be 1"]
\* mapOnSuccess: doubles.
MapFn(v) == 2 * v
\* switchOnSuccess: fails on 2, else adds 10.
SwitchFn(v, nid) == IF v = 2 THEN Fail("switch failed", nid) ELSE Success(v + 10, nid)
\* onTryExecute: (out, err).
TryFn(v) == [out |-> v + 1, err |-> IF v = 2 THEN "try failed" ELSE NoErr]

(* solo: the synchronous stage functions.  `nid` is the id of the outcome *)
(* the stage creates, if it creates one.                                  *)

AndValidate(input, nid) ==
  IF input.isSuccess
  THEN IF ValidateFn(input.result).valid
       THEN Success(input.result, nid)
       ELSE Fail(ValidateFn(input.result).errMsg, nid)
  ELSE input

\* solo.Validate takes the plain value: mass.Validating passes input.Result().
Validate(v, nid) == AndValidate(Success(v, nid), nid)

Switch(input, nid) ==
  IF input.isSuccess THEN SwitchFn(input.result, nid)
  ELSE IF input.isCancel THEN Cancel(input.err, nid) ELSE Fail(input.err, nid)

Map(input, nid) ==
  IF input.isSuccess THEN Success(MapFn(input.result), nid)
  ELSE IF input.isCancel THEN Cancel(input.err, nid) ELSE Fail(input.err, nid)

Tee(input) == input

DoubleTee(input) == input

DoubleMap(input, nid) ==
  IF input.isSuccess THEN Success(MapFn(input.result), nid)
  ELSE IF input.isCancel THEN Cancel(input.err, nid) ELSE Fail(input.err, nid)

Try(input, nid) ==
  IF input.isSuccess
  THEN IF TryFn(input.result).err # NoErr
       THEN Fail(TryFn(input.result).err, nid)
       ELSE Success(TryFn(input.result).out, nid)
  ELSE IF input.isCancel THEN Cancel(input.err, nid) ELSE Fail(input.err, nid)

Kinds == {"Validate", "Switch", "Map", "DoubleMap", "Tee", "DoubleTee", "Try"}

\* What goroutine A of adapter `kind` sends on ch for `input`.
StageOut(kind, input, nid) ==
  CASE kind = "Validate" -> Validate(input.result, nid)
    [] kind = "Switch" -> Switch(input, nid)
    [] kind = "Map" -> Map(input, nid)
    [] kind = "DoubleMap" -> DoubleMap(input, nid)
    [] kind = "Tee" -> Tee(input)
    [] kind = "DoubleTee" -> DoubleTee(input)
    [] kind = "Try" -> Try(input, nid)

\* How often the stage invokes its success function for `input`.
SuccessCalls(kind, input) ==
  IF kind = "Validate" THEN 1 ELSE IF input.isSuccess THEN 1 ELSE 0

\* How often the stage invokes an error / cancel function for `input`
\* (solo.DoubleMap and solo.DoubleTee have them).
ErrorCalls(kind, input) ==
  IF kind \in {"DoubleMap", "DoubleTee"} /\ ~input.isSuccess THEN 1 ELSE 0

\* mass.Validating panics on an input without a result.
StagePanics(kind, input) == kind = "Validate" /\ ~input.hasResult

-----------------------------------------------------------------------------
(* Configuration *)

\* Faulty variant: the value set on the context is ignored
IsProcessRemainingEnabledDefault(popt, defaultProcessRemaining) ==
  defaultProcessRemaining

\* core.IsProcessRemainingEnabled(ctx, defaultProcessRemaining)
IsProcessRemainingEnabled(popt, defaultProcessRemaining) ==
  IF popt = "unset" THEN defaultProcessRemaining ELSE popt = "on"

\* `required` of the drain helpers.
Required == IsProcessRemainingEnabled(cfg.popt, TRUE)

N == Len(cfg.src)
Idx == 1 .. N
Workers == 1 .. cfg.lines

\* custom.Run with the drain helpers, an onSuccess observer and adapters
\* with an onCancel callback; lite.Run passes none of them.
HasHandlers == cfg.profile = "custom"
HasOnSuccess == cfg.profile = "custom"
HasAdapterOnCancel == cfg.profile = "custom"

Running == panicked = "no"

-----------------------------------------------------------------------------
(* Channels *)

InputReady == inHead <= N
\* Faulty variant: a closed channel reads as exhausted while items are buffered
InputExhaustedEarly == cfg.closedIn

\* `in, ok := <-inputCh` yields !ok: closed and empty
InputExhausted == cfg.closedIn /\ inHead > N

\* `outCh <- item` by worker w completes: the consumer receives it.  A send
\* on a closed channel panics.
CanSend == outClosed \/ cpc = "recv"
SendOut(item, via) ==
  IF outClosed
  THEN /\ panicked' = "send on closed channel"
       /\ received' = received
  ELSE /\ panicked' = panicked
       /\ received' = Append(received, [o |-> item, via |-> via])

\* The worker moves on; `return` runs the deferred wg.Done().  Moving to
\* a handler is its invocation (from "hDrain" the worker is back in the
\* range loop of the OnCancel it is running).
Goto(w, p) ==
  /\ pc' = [pc EXCEPT ![w] = p]
  /\ wg' = IF p = "done" THEN wg - 1 ELSE wg
  /\ hlog' = [hlog EXCEPT ![w] =
        IF p = "hUnproc" THEN Append(@, "OnCancelUnprocessed")
        ELSE IF p = "hProc" THEN Append(@, "OnCancelProcessed")
        ELSE IF p = "hCancel" /\ pc[w] # "hDrain" THEN Append(@, "OnCancel")
        ELSE @]

-----------------------------------------------------------------------------
(* core.Locomotive *)

\* Faulty variant: the outer select returns on cancellation without OnCancel
LocoNextCancelSilent(w) ==
  /\ Running /\ pc[w] = "next" /\ cancelled
  /\ Goto(w, "done")
  /\ UNCHANGED << auxVars, cfg, cancelled, panicked, inHead, outClosed, cur, pr, din,
                  adVars, sinkVars, succLog, obsVars >>

\* case <-ctx.Done() of the outer select
LocoNextCancel(w) ==
  /\ Running /\ pc[w] = "next" /\ cancelled
  /\ Goto(w, IF HasHandlers THEN "hCancel" ELSE "done")
  /\ UNCHANGED << auxVars, cfg, cancelled, panicked, inHead, outClosed, cur, pr, din,
                  adVars, sinkVars, succLog, obsVars >>

\* case in, ok := <-inputCh, ok
LocoNextRecv(w) ==
  /\ Running /\ pc[w] = "next" /\ InputReady
  /\ cur' = [cur EXCEPT ![w] = inHead]
  /\ inHead' = inHead + 1
  /\ Goto(w, "call")
  /\ UNCHANGED << auxVars, cfg, cancelled, panicked, outClosed, pr, din,
                  adVars, sinkVars, succLog, obsVars >>

\* case in, ok := <-inputCh, !ok: return
LocoNextClosed(w) ==
  /\ Running /\ pc[w] = "next" /\ InputExhausted
  /\ Goto(w, "done")
  /\ UNCHANGED << auxVars, cfg, cancelled, panicked, inHead, outClosed, cur, pr, din,
                  adVars, sinkVars, succLog, obsVars >>

\* engine(ctx, in): the adapter makes its channels and starts A and B
LocoCall(w) ==
  /\ Running /\ pc[w] = "call"
  /\ apc' = [apc EXCEPT ![cur[w]] = "start"]
  /\ bpc' = [bpc EXCEPT ![cur[w]] = "select"]
  /\ cancAtCall' = [cancAtCall EXCEPT ![cur[w]] = cancelled]
  /\ Goto(w, "stage")
  /\ UNCHANGED << auxVars, cfg, cancelled, panicked, inHead, outClosed, cur, pr, din,
                  val, chClosed, outCl, sinkVars, succLog, fcnt, ecnt, cb, dlc >>

\* inner select, case <-ctx.Done()
LocoStageCancel(w) ==
  /\ Running /\ pc[w] = "stage" /\ cancelled
  /\ Goto(w, IF HasHandlers THEN "hUnproc" ELSE "done")
  /\ UNCHANGED << auxVars, cfg, cancelled, panicked, inHead, outClosed, cur, pr, din,
                  adVars, sinkVars, succLog, obsVars >>

\* inner select, case pr, running := <-engine(ctx, in), running:
\* the rendezvous with B's `out <- pr`
LocoStageRecv(w) ==
  /\ Running /\ pc[w] = "stage" /\ bpc[cur[w]] = "deliver"
  /\ pr' = [pr EXCEPT ![w] = val[cur[w]]]
  /\ dlc' = [dlc EXCEPT ![cur[w]] = @ + 1]
  /\ bpc' = [bpc EXCEPT ![cur[w]] = "closing"]
  /\ Goto(w, "fwd")
  /\ UNCHANGED << auxVars, cfg, cancelled, panicked, inHead, outClosed, cur, din,
                  apc, val, chClosed, outCl, sinkVars, succLog,
                  fcnt, ecnt, cb, cancAtCall >>

\* inner select, case pr, running := <-engine(ctx, in), !running: return
LocoStageClosed(w) ==
  /\ Running /\ pc[w] = "stage" /\ outCl[cur[w]]
  /\ Goto(w, "done")
  /\ UNCHANGED << auxVars, cfg, cancelled, panicked, inHead, outClosed, cur, pr, din,
                  adVars, sinkVars, succLog, obsVars >>

\* Faulty variant: the send does not race the cancellation
LocoFwdCancelNever(w) == FALSE /\ UNCHANGED vars

\* Faulty variant: the output is sent and handed to OnCancelProcessed too
LocoFwdCancelDup(w) ==
  /\ Running /\ pc[w] = "fwd" /\ cancelled /\ CanSend
  /\ SendOut(pr[w], "fwd")
  /\ Goto(w, IF HasHandlers THEN "hProc" ELSE "done")
  /\ UNCHANGED << auxVars, cfg, cancelled, inHead, outClosed, cur, pr, din,
                  adVars, cpc, succLog, obsVars >>

LocoFwdCancelUnhandled(w) ==
  /\ Running /\ pc[w] = "fwd" /\ cancelled
  /\ Goto(w, IF HasHandlers THEN "hCancel" ELSE "done")
  /\ UNCHANGED << auxVars, cfg, cancelled, panicked, inHead, outClosed, cur, pr, din,
                  adVars, sinkVars, succLog, obsVars >>

\* innermost select, case <-ctx.Done()
LocoFwdCancel(w) ==
  /\ Running /\ pc[w] = "fwd" /\ cancelled
  /\ Goto(w, IF HasHandlers THEN "hProc" ELSE "done")
  /\ UNCHANGED << auxVars, cfg, cancelled, panicked, inHead, outClosed, cur, pr, din,
                  adVars, sinkVars, succLog, obsVars >>

\* innermost select, case outCh <- pr
LocoFwdSend(w) ==
  /\ Running /\ pc[w] = "fwd" /\ CanSend
  /\ SendOut(pr[w], "fwd")
  /\ Goto(w, IF HasOnSuccess THEN "succ" ELSE "next")
  /\ UNCHANGED << auxVars, cfg, cancelled, inHead, outClosed, cur, pr, din,
                  adVars, cpc, succLog, obsVars >>

LocoOnSuccessTwice(w) ==
  /\ Running /\ pc[w] = "succ"
  /\ succLog' = Append(Append(succLog, pr[w]), pr[w])
  /\ Goto(w, "next")
  /\ UNCHANGED << auxVars, cfg, cancelled, panicked, inHead, outClosed, cur, pr, din,
                  adVars, sinkVars, obsVars >>

\* onSuccess(ctx, pr)
LocoOnSuccess(w) ==
  /\ Running /\ pc[w] = "succ"
  /\ succLog' = Append(succLog, pr[w])
  /\ Goto(w, "next")
  /\ UNCHANGED << auxVars, cfg, cancelled, panicked, inHead, outClosed, cur, pr, din,
                  adVars, sinkVars, obsVars >>

-----------------------------------------------------------------------------
(* custom: the drain helpers, installed as the pool's handlers *)

\* The helpers installed as handlers: "Result" (CancelRemainingResult,
\* CancelRemainingResults), "Value" (CancelRemainingValue,
\* CancelRemainingValues) or "Pass" (CancelResult, CancelResults).  A pool
\* is given the first pair.
Helper == IF "helper" \in DOMAIN cfg THEN cfg.helper ELSE "Result"

\* brokenF(ctx, in): the plain value standing for the input not handled.
BrokenFn(in) == 0 - in.id

\* Faulty variant: the marker carries ErrCancelled whatever the input is
MarkerGeneric(i) ==
  IF Helper = "Result" THEN Cancel(ErrCancelled, NewId(i, 2))
  ELSE IF Helper = "Value" THEN BrokenFn(cfg.src[i])
  ELSE cfg.src[i]

\* What a drain helper emits for `in`, input i: the Cancelled outcome,
\* brokenF(ctx, in), or the item as it is.
Marker(i) ==
  IF Helper = "Result"
  THEN IF cfg.src[i].isCancel THEN CancelFrom(cfg.src[i])
       ELSE Cancel(ErrCancelled, NewId(i, 2))
  ELSE IF Helper = "Value" THEN BrokenFn(cfg.src[i])
  ELSE cfg.src[i]

\* OnCancelUnprocessed = CancelRemainingResult, !required
CancelRemainingResultSkip(w) ==
  /\ Running /\ pc[w] = "hUnproc" /\ ~Required
  /\ Goto(w, "hCancel")
  /\ UNCHANGED << auxVars, cfg, cancelled, panicked, inHead, outClosed, cur, pr, din,
                  adVars, sinkVars, succLog, obsVars >>

\* OnCancelUnprocessed = CancelRemainingResult, required: outCh <- marker
CancelRemainingResult(w) ==
  /\ Running /\ pc[w] = "hUnproc" /\ Required /\ CanSend
  /\ SendOut(Marker(cur[w]), "marker")
  /\ Goto(w, "hCancel")
  /\ UNCHANGED << auxVars, cfg, cancelled, inHead, outClosed, cur, pr, din,
                  adVars, cpc, succLog, obsVars >>

\* OnCancelProcessed: outCh <- processed
OnCancelProcessed(w) ==
  /\ Running /\ pc[w] = "hProc" /\ CanSend
  /\ SendOut(pr[w], "reemit")
  /\ Goto(w, "hCancel")
  /\ UNCHANGED << auxVars, cfg, cancelled, inHead, outClosed, cur, pr, din,
                  adVars, cpc, succLog, obsVars >>

\* OnCancel = CancelRemainingResults, !required: return
CancelRemainingResultsSkip(w) ==
  /\ Running /\ pc[w] = "hCancel" /\ ~Required
  /\ Goto(w, "done")
  /\ UNCHANGED << auxVars, cfg, cancelled, panicked, inHead, outClosed, cur, pr, din,
                  adVars, sinkVars, succLog, obsVars >>

\* CancelRemainingResults: for in := range inputCh, an item
CancelRemainingResultsPull(w) ==
  /\ Running /\ pc[w] = "hCancel" /\ Required /\ InputReady
  /\ din' = [din EXCEPT ![w] = inHead]
  /\ inHead' = inHead + 1
  /\ Goto(w, "hDrain")
  /\ UNCHANGED << auxVars, cfg, cancelled, panicked, outClosed, cur, pr,
                  adVars, sinkVars, succLog, obsVars >>

\* Faulty variant: the item taken from the channel is dropped
CancelRemainingResultsSendDrop(w) ==
  /\ Running /\ pc[w] = "hDrain"
  /\ received' = received /\ panicked' = panicked
  /\ Goto(w, "hCancel")
  /\ UNCHANGED << auxVars, cfg, cancelled, inHead, outClosed, cur, pr, din,
                  adVars, cpc, succLog, obsVars >>

\* CancelRemainingResults: outCh <- marker of the item
CancelRemainingResultsSend(w) ==
  /\ Running /\ pc[w] = "hDrain" /\ CanSend
  /\ SendOut(Marker(din[w]), "marker")
  /\ Goto(w, "hCancel")
  /\ UNCHANGED << auxVars, cfg, cancelled, inHead, outClosed, cur, pr, din,
                  adVars, cpc, succLog, obsVars >>

\* Faulty variant: the range loop ends on a closed channel that holds items
CancelRemainingResultsEndEarly(w) ==
  /\ Running /\ pc[w] = "hCancel" /\ Required /\ cfg.closedIn
  /\ Goto(w, "done")
  /\ UNCHANGED << auxVars, cfg, cancelled, panicked, inHead, outClosed, cur, pr, din,
                  adVars, sinkVars, succLog, obsVars >>

\* CancelRemainingResults: the range loop ends, inputCh closed and empty
CancelRemainingResultsEnd(w) ==
  /\ Running /\ pc[w] = "hCancel" /\ Required /\ InputExhausted
  /\ Goto(w, "done")
  /\ UNCHANGED << auxVars, cfg, cancelled, panicked, inHead, outClosed, cur, pr, din,
                  adVars, sinkVars, succLog, obsVars >>

-----------------------------------------------------------------------------
(* mass: the adapters (Validating, Switching, Mapping, DoubleMapping,     *)
(* Teeing, DoubleTeeing, Trying share this shape)                         *)

\* Faulty variant: A runs the stage function without looking at ctx.Err()
AdapterRunUnchecked(i) ==
  /\ Running /\ apc[i] = "start" /\ ~StagePanics(cfg.kind, cfg.src[i])
  /\ apc' = [apc EXCEPT ![i] = "send"]
  /\ val' = [val EXCEPT ![i] = StageOut(cfg.kind, cfg.src[i], NewId(i, 1))]
  /\ fcnt' = [fcnt EXCEPT ![i] = @ + SuccessCalls(cfg.kind, cfg.src[i])]
  /\ ecnt' = [ecnt EXCEPT ![i] = @ + ErrorCalls(cfg.kind, cfg.src[i])]
  /\ UNCHANGED << auxVars, cfg, cancelled, panicked, inHead, outClosed, locoVars, bpc,
                  chClosed, outCl, sinkVars, succLog, cb, dlc, cancAtCall >>

\* goroutine A: if ctx.Err() == nil { ch <- solo.X(ctx, input, f) }; the
\* stage function has run and A stands at its send.  With ctx cancelled A
\* returns and the deferred close(ch) runs.
AdapterRun(i) ==
  /\ Running /\ apc[i] = "start"
  /\ IF cancelled
     THEN /\ apc' = [apc EXCEPT ![i] = "done"]
          /\ chClosed' = [chClosed EXCEPT ![i] = TRUE]
          /\ UNCHANGED << panicked, val, fcnt, ecnt >>
     ELSE IF StagePanics(cfg.kind, cfg.src[i])
     THEN /\ panicked' = "no results!"
          /\ UNCHANGED << apc, chClosed, val, fcnt, ecnt >>
     ELSE /\ apc' = [apc EXCEPT ![i] = "send"]
          /\ val' = [val EXCEPT ![i] = StageOut(cfg.kind, cfg.src[i], NewId(i, 1))]
          /\ fcnt' = [fcnt EXCEPT ![i] = @ + SuccessCalls(cfg.kind, cfg.src[i])]
          /\ ecnt' = [ecnt EXCEPT ![i] = @ + ErrorCalls(cfg.kind, cfg.src[i])]
          /\ UNCHANGED << panicked, chClosed >>
  /\ UNCHANGED << auxVars, cfg, cancelled, inHead, outClosed, locoVars, bpc, outCl,
                  sinkVars, succLog, cb, dlc, cancAtCall >>

\* What B does next when it has nothing to deliver.
NoDelivery == IF HasAdapterOnCancel THEN "cb" ELSE "closing"

\* goroutine B, case pr, ok := <-ch, ok: the rendezvous with A's send; A
\* returns and closes ch, which B never reads again
AdapterRecv(i) ==
  /\ Running /\ bpc[i] = "select" /\ apc[i] = "send"
  /\ apc' = [apc EXCEPT ![i] = "done"]
  /\ chClosed' = [chClosed EXCEPT ![i] = TRUE]
  /\ bpc' = [bpc EXCEPT ![i] = "deliver"]
  /\ UNCHANGED << auxVars, cfg, cancelled, panicked, inHead, outClosed, locoVars,
                  val, outCl, sinkVars, succLog, obsVars >>

\* goroutine B, case pr, ok := <-ch, !ok
AdapterChClosed(i) ==
  /\ Running /\ bpc[i] = "select" /\ chClosed[i]
  /\ bpc' = [bpc EXCEPT ![i] = NoDelivery]
  /\ UNCHANGED << auxVars, cfg, cancelled, panicked, inHead, outClosed, locoVars,
                  apc, val, chClosed, outCl, sinkVars, succLog, obsVars >>

\* goroutine B, case <-ctx.Done()
AdapterCtxDone(i) ==
  /\ Running /\ bpc[i] = "select" /\ cancelled
  /\ bpc' = [bpc EXCEPT ![i] = NoDelivery]
  /\ UNCHANGED << auxVars, cfg, cancelled, panicked, inHead, outClosed, locoVars,
                  apc, val, chClosed, outCl, sinkVars, succLog, obsVars >>

\* goroutine B: onCancel(ctx, input)
AdapterOnCancel(i) ==
  /\ Running /\ bpc[i] = "cb"
  /\ cb' = [cb EXCEPT ![i] = @ + 1]
  /\ bpc' = [bpc EXCEPT ![i] = "closing"]
  /\ UNCHANGED << auxVars, cfg, cancelled, panicked, inHead, outClosed, locoVars,
                  apc, val, chClosed, outCl, sinkVars, succLog,
                  fcnt, ecnt, dlc, cancAtCall >>

\* Faulty variant: B returns without closing out
AdapterCloseForgets(i) ==
  /\ Running /\ bpc[i] = "closing"
  /\ bpc' = [bpc EXCEPT ![i] = "done"]
  /\ UNCHANGED << auxVars, cfg, cancelled, panicked, inHead, outClosed, locoVars,
                  apc, val, chClosed, outCl, sinkVars, succLog, obsVars >>

\* goroutine B returns: the deferred close(out)
AdapterClose(i) ==
  /\ Running /\ bpc[i] = "closing"
  /\ outCl' = [outCl EXCEPT ![i] = TRUE]
  /\ bpc' = [bpc EXCEPT ![i] = "done"]
  /\ UNCHANGED << auxVars, cfg, cancelled, panicked, inHead, outClosed, locoVars,
                  apc, val, chClosed, sinkVars, succLog, obsVars >>

-----------------------------------------------------------------------------
(* The pool's closer goroutine, the consumer and the context *)

\* Faulty variant: the closer stops waiting while a worker is still running
WaitDoneEarly == wg <= 1

\* wg.Wait() returned
WaitDone == wg = 0

\* Faulty variant: RunSingle starts two workers
RunSingleLinesTwo == 1 + 1

\* custom.RunSingle: Run(ctx, inputCh, engine, handlers, onSuccess, 1)
RunSingleLines == 1

\* go func() { wg.Wait(); close(out) }()
CloseOut ==
  /\ Running /\ WaitDone /\ ~outClosed
  /\ outClosed' = TRUE
  /\ UNCHANGED << auxVars, cfg, cancelled, panicked, inHead, locoVars, adVars,
                  sinkVars, succLog, obsVars >>

\* the consumer sees the output closed (v, ok := <-out, !ok; the end of a
\* range loop)
ConsumerClosed ==
  /\ Running /\ cpc = "recv" /\ outClosed
  /\ cpc' = "done"
  /\ UNCHANGED << auxVars, cfg, cancelled, panicked, inHead, outClosed, locoVars,
                  adVars, received, succLog, obsVars >>

\* core.FromChanMany: case <-ctx.Done(): return
ConsumerCtxDone ==
  /\ Running /\ cpc = "recv" /\ cfg.ckind = "ctx" /\ cancelled
  /\ cpc' = "stopped"
  /\ UNCHANGED << auxVars, cfg, cancelled, panicked, inHead, outClosed, locoVars,
                  adVars, received, succLog, obsVars >>

\* cancel() / the deadline of the context
CancelCtx ==
  /\ Running /\ ~cancelled
  /\ cancelled' = TRUE
  /\ UNCHANGED << auxVars, cfg, panicked, inHead, outClosed, locoVars, adVars,
                  sinkVars, succLog, obsVars >>

-----------------------------------------------------------------------------
(* Specifications *)

S1 == Success(1, 0)
S2 == Success(2, 0)
F1 == Fail("boom", 0)
C1in == Cancel("context canceled", 0)

\* The outcomes a pool is fed.
PoolItems == {S1, C1in}
\* The outcomes an adapter is invoked with.
AdapterItems == {S1, S2, F1, C1in}

RECURSIVE SeqsUpTo(_, _)
SeqsUpTo(S, n) ==
  IF n = 0 THEN {<< >>}
  ELSE LET shorter == SeqsUpTo(S, n - 1)
       IN shorter \cup {Append(s, x) : s \in {t \in shorter : Len(t) = n - 1}, x \in S}

\* The input channel's items: item i carries id i.
WithIds(s) == [i \in 1 .. Len(s) |-> [s[i] EXCEPT !.id = i]]

\* The pool's variables with ctx cancelled or not, every worker at position
\* p holding input `held`, and the input channel's next item `head`.
PoolAt(c, canc, p, held, head) ==
  /\ cancelled = canc
  /\ panicked = "no"
  /\ inHead = head
  /\ outClosed = FALSE
  /\ wg = c.lines
  /\ pc = [w \in 1 .. c.lines |-> p]
  /\ cur = [w \in 1 .. c.lines |-> held]
  /\ pr = [w \in 1 .. c.lines |-> Fail(NoErr, 0)]
  /\ din = [w \in 1 .. c.lines |-> 0]
  /\ apc = [i \in 1 .. Len(c.src) |-> "idle"]
  /\ bpc = [i \in 1 .. Len(c.src) |-> "idle"]
  /\ val = [i \in 1 .. Len(c.src) |-> Fail(NoErr, 0)]
  /\ chClosed = [i \in 1 .. Len(c.src) |-> FALSE]
  /\ outCl = [i \in 1 .. Len(c.src) |-> FALSE]
  /\ cpc = "recv"
  /\ received = << >>
  /\ succLog = << >>
  /\ fcnt = [i \in 1 .. Len(c.src) |-> 0]
  /\ ecnt = [i \in 1 .. Len(c.src) |-> 0]
  /\ cb = [i \in 1 .. Len(c.src) |-> 0]
  /\ dlc = [i \in 1 .. Len(c.src) |-> 0]
  /\ cancAtCall = [i \in 1 .. Len(c.src) |-> FALSE]
  /\ hlog = [w \in 1 .. c.lines |-> << >>]

\* The pool's variables as custom.Run / lite.Run leave them.
PoolInit(c) == PoolAt(c, FALSE, "next", 0, 1)

InitState(c) == cfg = c /\ PoolInit(c)

\* The pipeline is not built.
PipeIdle ==
  /\ srcHead = 1
  /\ spc = << >>
  /\ sval = << >>
  /\ stClosed = << >>
  /\ fpc = "idle"
  /\ fval = ZeroValue
  /\ fchClosed = FALSE
  /\ gpc = "idle"
  /\ gval = ZeroValue
  /\ finClosed = FALSE
  /\ finals = << >>
  /\ pipePanic = "no"
  /\ flog = << >> /\ glog = << >> /\ fcur = 0 /\ fdin = 0
  /\ fsent = << >> /\ fsucc = << >> /\ frecv = << >>

\* No synchronous call is made.
CalcIdle == calc = [op |-> "none"]

\* No source adapter is started.
ToChanIdle == toChan = [pc |-> "idle"]

AuxIdle == PipeIdle /\ CalcIdle /\ ToChanIdle

\* A pool of 1..MaxLines workers over up to MaxInputs buffered inputs.
PoolConfigs ==
  { c \in [src : {WithIds(s) : s \in SeqsUpTo(PoolItems, MaxInputs)},
           kind : {"Map"},
           lines : 1 .. MaxLines,
           profile : {"lite", "custom"},
           popt : {"unset", "on", "off"},
           ckind : {"range", "ctx"},
           closedIn : BOOLEAN] :
      c.profile = "lite" => c.popt = "unset" }

Init == \E c \in PoolConfigs : InitState(c) /\ AuxIdle

\* The steps of the worker loops.
LocoStep ==
  \/ \E w \in Workers : LocoNextCancel(w)
  \/ \E w \in Workers : LocoNextRecv(w)
  \/ \E w \in Workers : LocoNextClosed(w)
  \/ \E w \in Workers : LocoCall(w)
  \/ \E w \in Workers : LocoStageCancel(w)
  \/ \E w \in Workers : LocoStageRecv(w)
  \/ \E w \in Workers : LocoStageClosed(w)
  \/ \E w \in Workers : LocoFwdCancel(w)
  \/ \E w \in Workers : LocoFwdSend(w)

\* The steps of the adapters' goroutines.
AdapterStep ==
  \/ \E i \in Idx : AdapterRun(i)
  \/ \E i \in Idx : AdapterRecv(i)
  \/ \E i \in Idx : AdapterChClosed(i)
  \/ \E i \in Idx : AdapterCtxDone(i)
  \/ \E i \in Idx : AdapterClose(i)

\* The closer and the consumer.
SinkStep ==
  \/ CloseOut
  \/ ConsumerClosed
  \/ ConsumerCtxDone

\* The steps of what package custom adds: the observer, the handlers and
\* the adapters' onCancel.
CustomStep ==
  \/ \E w \in Workers : LocoOnSuccess(w)
  \/ \E w \in Workers : CancelRemainingResultSkip(w)
  \/ \E w \in Workers : CancelRemainingResult(w)
  \/ \E w \in Workers : OnCancelProcessed(w)
  \/ \E w \in Workers : CancelRemainingResultsSkip(w)
  \/ \E w \in Workers : CancelRemainingResultsPull(w)
  \/ \E w \in Workers : CancelRemainingResultsSend(w)
  \/ \E w \in Workers : CancelRemainingResultsEnd(w)
  \/ \E i \in Idx : AdapterOnCancel(i)

\* Every step but the cancellation of the context, which may never come.
ProgressLite == LocoStep \/ AdapterStep \/ SinkStep
Progress == ProgressLite \/ CustomStep

NextLite == ProgressLite \/ CancelCtx
Next == Progress \/ CancelCtx

\* Pools of package custom and of package lite.
Spec == Init /\ [][Next]_vars

\* Pools of package lite: no handlers, no observer, no onCancel.
InitLite == \E c \in PoolConfigs : c.profile = "lite" /\ InitState(c) /\ AuxIdle

SpecLite == InitLite /\ [][NextLite]_vars

\* The Go scheduler runs every goroutine that can take a step.
FairSpecLite == InitLite /\ [][NextLite]_vars /\ WF_vars(ProgressLite)

\* One adapter invocation of every kind on every outcome, called by a
\* single Locomotive.
AdapterConfigs ==
  [src : {WithIds(<< x >>) : x \in AdapterItems},
   kind : Kinds,
   lines : {1},
   profile : {"lite", "custom"},
   popt : {"on", "off"},
   ckind : {"range", "ctx"},
   closedIn : {TRUE}]

InitAdapter == \E c \in AdapterConfigs : InitState(c) /\ AuxIdle

SpecAdapter == InitAdapter /\ [][Next]_vars

FairSpecAdapter == InitAdapter /\ [][Next]_vars /\ WF_vars(Progress)

\* An engine that is not an adapter of package mass: the processor of the
\* benchmarks sends Success(2 * v) into a buffered channel for a succeeded
\* input and closes the channel; for any other input it only closes it.
EngineRun(i) ==
  /\ Running /\ cfg.kind = "SuccessOnly" /\ apc[i] = "start"
  /\ apc' = [apc EXCEPT ![i] = "done"]
  /\ IF cfg.src[i].isSuccess
     THEN /\ val' = [val EXCEPT ![i] = Success(2 * cfg.src[i].result, NewId(i, 1))]
          /\ bpc' = [bpc EXCEPT ![i] = "deliver"]
          /\ outCl' = outCl
     ELSE /\ val' = val
          /\ bpc' = [bpc EXCEPT ![i] = "done"]
          /\ outCl' = [outCl EXCEPT ![i] = TRUE]
  /\ UNCHANGED << auxVars, cfg, cancelled, panicked, inHead, outClosed, locoVars,
                  chClosed, sinkVars, succLog, obsVars >>

\* lite.Run and custom.Run over that engine, up to MaxInputs inputs.
EngineConfigs ==
  [src : {WithIds(q) : q \in SeqsUpTo(AdapterItems, MaxInputs)},
   kind : {"SuccessOnly"},
   lines : 1 .. MaxLines,
   profile : {"lite", "custom"},
   popt : {"unset"},
   ckind : {"range"},
   closedIn : BOOLEAN]

InitEngine == \E c \in EngineConfigs : InitState(c) /\ AuxIdle

\* The context is never cancelled.
NextEngine ==
  \/ \E w \in Workers : LocoNextRecv(w)
  \/ \E w \in Workers : LocoNextClosed(w)
  \/ \E w \in Workers : LocoCall(w)
  \/ \E w \in Workers : LocoStageRecv(w)
  \/ \E w \in Workers : LocoStageClosed(w)
  \/ \E w \in Workers : LocoFwdSend(w)
  \/ \E w \in Workers : LocoOnSuccess(w)
  \/ \E i \in Idx : EngineRun(i)
  \/ \E i \in Idx : AdapterClose(i)
  \/ CloseOut
  \/ ConsumerClosed

SpecEngine == InitEngine /\ [][NextEngine]_vars

-----------------------------------------------------------------------------
(* The drain helpers on their own: one goroutine runs the single-item     *)
(* helper on a pending input and then the stream helper on the input      *)
(* channel (as Locomotive does on cancellation), or the stream helper     *)
(* alone; the output channel is read until it is closed.                  *)

\* The number of outcomes handed to the helpers.
MaxDrainInputs == 3

DrainConfigs ==
  [src : {WithIds(q) : q \in SeqsUpTo(AdapterItems, MaxDrainInputs)},
   helper : {"Result", "Value", "Pass"},
   kind : {"Map"},
   lines : {1},
   profile : {"custom"},
   popt : {"unset", "on", "off"},
   ckind : {"range"},
   closedIn : BOOLEAN]

InitDrain ==
  \E c \in DrainConfigs :
    /\ cfg = c /\ AuxIdle
    /\ \/ Len(c.src) >= 1 /\ PoolAt(c, TRUE, "hUnproc", 1, 2)
       \/ PoolAt(c, TRUE, "hCancel", 0, 1)

NextDrain ==
  \/ \E w \in Workers : CancelRemainingResultSkip(w)
  \/ \E w \in Workers : CancelRemainingResult(w)
  \/ \E w \in Workers : CancelRemainingResultsSkip(w)
  \/ \E w \in Workers : CancelRemainingResultsPull(w)
  \/ \E w \in Workers : CancelRemainingResultsSend(w)
  \/ \E w \in Workers : CancelRemainingResultsEnd(w)
  \/ CloseOut
  \/ ConsumerClosed

\* The Go scheduler runs every goroutine that can take a step.
FairSpecDrain == InitDrain /\ [][NextDrain]_vars /\ WF_vars(NextDrain)

-----------------------------------------------------------------------------
(* Outcomes built by the constructors and run through the stages, one     *)
(* call after the other                                                   *)

\* The number of calls applied to one outcome.
MaxCalls == 2

\* rop.SetProcessed
SetProcessedFresh(r) == [r EXCEPT !.isProcessed = TRUE, !.id = @ + 1]

SetProcessed(r) == [r EXCEPT !.isProcessed = TRUE]

SuccessAndProcessed(r, nid) == SetProcessed(Success(r, nid))
FailAndProcessed(er, nid) == SetProcessed(Fail(er, nid))
CancelAndProcessed(er, nid) == SetProcessed(Cancel(er, nid))

\* What the constructors build.
Constructed ==
  {Success(v, 1) : v \in {1, 2}} \cup {Fail("boom", 1), Cancel("context canceled", 1)}
    \cup {SuccessAndProcessed(v, 1) : v \in {1, 2}}
    \cup {FailAndProcessed("boom", 1), CancelAndProcessed("context canceled", 1)}

\* No pool is running: the pool's variables stay as constructed.
IdleConfig ==
  [src |-> << >>, kind |-> "Map", lines |-> 1, profile |-> "lite",
   popt |-> "unset", ckind |-> "range", closedIn |-> TRUE]

InitStages ==
  /\ InitState(IdleConfig) /\ PipeIdle /\ ToChanIdle
  /\ \E r \in Constructed :
       calc = [op |-> "new", arg |-> r, res |-> r, calls |-> 0, n |-> 0,
               panic |-> FALSE]

\* The outcome runs through the stage `kind` (its adapter and its solo
\* function), with no cancellation.
StageCall(kind) ==
  /\ calc.op # "none" /\ calc.n < MaxCalls /\ ~calc.panic
  /\ calc' =
       IF StagePanics(kind, calc.res)
       THEN [op |-> kind, arg |-> calc.res, res |-> calc.res, calls |-> 0,
             n |-> calc.n + 1, panic |-> TRUE]
       ELSE [op |-> kind, arg |-> calc.res,
             res |-> StageOut(kind, calc.res, NewId(calc.n + 1, 3)),
             calls |-> SuccessCalls(kind, calc.res) + ErrorCalls(kind, calc.res),
             n |-> calc.n + 1, panic |-> FALSE]
  /\ UNCHANGED << cfg, poolVars, pipeVars, toChan >>

\* rop.SetProcessed(r)
SetProcessedCall ==
  /\ calc.op # "none" /\ calc.n < MaxCalls /\ ~calc.panic
  /\ calc' = [op |-> "SetProcessed", arg |-> calc.res, res |-> SetProcessed(calc.res),
              calls |-> 0, n |-> calc.n + 1, panic |-> FALSE]
  /\ UNCHANGED << cfg, poolVars, pipeVars, toChan >>

\* rop.CancelFrom(r)
CancelFromCall ==
  /\ calc.op # "none" /\ calc.n < MaxCalls /\ ~calc.panic
  /\ calc' = [op |-> "CancelFrom", arg |-> calc.res, res |-> CancelFrom(calc.res),
              calls |-> 0, n |-> calc.n + 1, panic |-> FALSE]
  /\ UNCHANGED << cfg, poolVars, pipeVars, toChan >>

NextStages ==
  \/ \E kind \in Kinds : StageCall(kind)
  \/ SetProcessedCall
  \/ CancelFromCall

SpecStages == InitStages /\ [][NextStages]_vars

-----------------------------------------------------------------------------
(* tiny: the chain.  A chain is its result (its ctx never changes); every *)
(* operation yields the new result and the number of times it invoked the *)
(* function or the predicate it was given.                                *)

IsFailure(r) == ~r.isSuccess

\* The functions a chain is given: onSuccess / inC by their kind f ...
OnSuccessT(f, v, nid) ==
  CASE f = "inc" -> Success(v + 1, nid)
    [] f = "fail" -> Fail("boom", nid)
    [] f = "deadline" -> Cancel("context deadline exceeded", nid)
    [] f = "mark" -> SuccessAndProcessed(v + 1, nid)
    [] f = "failAt2" -> IF v < 2 THEN Success(v + 1, nid) ELSE Fail("boom", nid)

\* ... try, returning (T, error) ...
TryT(f, v) ==
  CASE f = "inc" -> [out |-> v + 1, err |-> NoErr]
    [] f = "fail" -> [out |-> ZeroValue, err |-> "boom"]
    [] f = "deadline" -> [out |-> ZeroValue, err |-> "context deadline exceeded"]
    [] f = "mark" -> [out |-> v + 2, err |-> NoErr]
    [] f = "failAt2" -> IF v < 2 THEN [out |-> v + 1, err |-> NoErr]
                      ELSE [out |-> ZeroValue, err |-> "boom"]

\* ... and the predicate until / while: true below 3.
PredT(v) == v < 3

\* Faulty variant: a processed success is not left alone
ThenUnchecked(c, f, nid) ==
  IF IsFailure(c) THEN [res |-> c, calls |-> 0]
  ELSE [res |-> OnSuccessT(f, c.result, nid), calls |-> 1]

Then(c, f, nid) ==
  IF IsFailure(c) \/ c.isProcessed THEN [res |-> c, calls |-> 0]
  ELSE [res |-> OnSuccessT(f, c.result, nid), calls |-> 1]

ThenTry(c, f, nid) ==
  IF IsFailure(c) \/ c.isProcessed THEN [res |-> c, calls |-> 0]
  ELSE IF TryT(f, c.result).err # NoErr
       THEN IF TryT(f, c.result).err = "context deadline exceeded"
            THEN [res |-> Cancel(TryT(f, c.result).err, nid), calls |-> 1]
            ELSE [res |-> Fail(TryT(f, c.result).err, nid), calls |-> 1]
       ELSE [res |-> Success(TryT(f, c.result).out, nid), calls |-> 1]

\* Chain.Map; onSuccess adds one
ChainMap(c, nid) ==
  IF IsFailure(c) \/ c.isProcessed THEN [res |-> c, calls |-> 0]
  ELSE [res |-> Success(c.result + 1, nid), calls |-> 1]

\* `calls`: the invocations made by the rounds of the loop already run.  A
\* further round starts with a success that is not processed, on which the
\* check at the entry does nothing.
RECURSIVE RepeatUntil(_, _, _, _)
RepeatUntil(c, f, nid, calls) ==
  IF IsFailure(c) \/ c.isProcessed THEN [res |-> c, calls |-> calls]
  ELSE LET t == Then(c, f, nid)
       IN IF IsFailure(t.res) \/ t.res.isProcessed
          THEN [res |-> t.res, calls |-> calls + t.calls]
          ELSE IF ~PredT(t.res.result)
               THEN [res |-> t.res, calls |-> calls + t.calls + 1]
               ELSE RepeatUntil(t.res, f, nid + 1, calls + t.calls + 1)

RECURSIVE RepeatChainUntil(_, _, _, _)
RepeatChainUntil(c, f, nid, calls) ==
  IF IsFailure(c) \/ c.isProcessed THEN [res |-> c, calls |-> calls]
  ELSE LET r == OnSuccessT(f, c.result, nid)
       IN IF IsFailure(r) \/ r.isProcessed
          THEN [res |-> r, calls |-> calls + 1]
          ELSE IF ~PredT(r.result)
               THEN [res |-> r, calls |-> calls + 2]
               ELSE RepeatChainUntil(r, f, nid + 1, calls + 2)

\* Faulty variant: the body runs before the predicate is asked
WhileAtLeastOnce(c, f, nid, calls) == RepeatUntil(c, f, nid, calls)

RECURSIVE While(_, _, _, _)
While(c, f, nid, calls) ==
  IF IsFailure(c) \/ c.isProcessed THEN [res |-> c, calls |-> calls]
  ELSE IF ~PredT(c.result) THEN [res |-> c, calls |-> calls + 1]
  ELSE While(Then(c, f, nid).res, f, nid + 1, calls + 1 + Then(c, f, nid).calls)

RECURSIVE WhileChain(_, _, _, _)
WhileChain(c, f, nid, calls) ==
  IF IsFailure(c) \/ c.isProcessed THEN [res |-> c, calls |-> calls]
  ELSE IF ~PredT(c.result) THEN [res |-> c, calls |-> calls + 1]
  ELSE WhileChain(OnSuccessT(f, c.result, nid), f, nid + 1, calls + 2)

TinyOps == {"Then", "ThenTry", "ChainMap", "RepeatUntil", "RepeatChainUntil",
            "While", "WhileChain"}

TinyOut(op, c, f, nid) ==
  CASE op = "Then" -> Then(c, f, nid)
    [] op = "ThenTry" -> ThenTry(c, f, nid)
    [] op = "ChainMap" -> ChainMap(c, nid)
    [] op = "RepeatUntil" -> RepeatUntil(c, f, nid, 0)
    [] op = "RepeatChainUntil" -> RepeatChainUntil(c, f, nid, 0)
    [] op = "While" -> While(c, f, nid, 0)
    [] op = "WhileChain" -> WhileChain(c, f, nid, 0)

\* tiny.Start(ctx, r) and then one operation after the other on the chain
TinyCall(op, f) ==
  /\ calc.op # "none" /\ calc.n < MaxCalls
  /\ calc' = [op |-> op, arg |-> calc.res,
              res |-> TinyOut(op, calc.res, f, 10 * (calc.n + 1)).res,
              calls |-> TinyOut(op, calc.res, f, 10 * (calc.n + 1)).calls,
              n |-> calc.n + 1, panic |-> FALSE, f |-> f]
  /\ UNCHANGED << cfg, poolVars, pipeVars, toChan >>

\* The bodies a chain is run with.
TinyFns == {"inc", "fail", "deadline", "mark", "failAt2"}

NextTiny == \E op \in TinyOps : \E f \in TinyFns : TinyCall(op, f)

SpecTiny == InitStages /\ [][NextTiny]_vars

-----------------------------------------------------------------------------
(* chain / solo: ValidateAll and Join.  An error is a record: a plain     *)
(* error has a message and no parts, the error errors.Join builds has its *)
(* errors as parts.                                                       *)

\* The number of validators handed to ValidateAll.
MaxValidators == 3

ErrNil == [msg |-> "nil", parts |-> << >>]
ErrNew(msg) == [msg |-> msg, parts |-> << >>]

\* errors.Join(e...), every e non-nil
ErrJoin(es) == IF es = << >> THEN ErrNil ELSE [msg |-> "join", parts |-> es]

\* rop.GetErrors
GetErrors(err) ==
  IF err = ErrNil THEN << >>
  ELSE IF err.msg = "join" THEN err.parts
  ELSE << err >>

\* rop.Success(v) and rop.Fail(err) with such an error
Outcome(ok, v, err) == [isSuccess |-> ok, result |-> v, err |-> err]

\* The validators: validateNonNegative and validateEven on a captured value
\* that passes ("ok") or does not ("negative", "odd"), and passThrough.
Validator(kind, in) ==
  CASE kind = "ok" -> Outcome(TRUE, 4, ErrNil)
    [] kind = "negative" -> Outcome(FALSE, ZeroValue, ErrNew("negative"))
    [] kind = "odd" -> Outcome(FALSE, ZeroValue, ErrNew("odd"))
    [] kind = "pass" -> in

\* Faulty variant: the error of the latest failure replaces the earlier ones
ConcatLatest(err, current) ==
  LET e == IF ~current.isSuccess THEN ErrJoin(<< current.err >>) ELSE err
  IN [err |-> e,
      res |-> IF e = ErrNil THEN current ELSE Outcome(FALSE, ZeroValue, e)]

\* The concat closure of ValidateAll: `err` is the variable it captures.
Concat(err, current) ==
  LET e == IF ~current.isSuccess
           THEN ErrJoin(Append(GetErrors(err), current.err))
           ELSE err
  IN [err |-> e,
      res |-> IF e = ErrNil THEN current ELSE Outcome(FALSE, ZeroValue, e)]

\* Join, the loop over inputsF[1:], at validator k; ctx.Err() is non-nil
\* once `ca` validators have run.  `rets`: what the validators returned.
RECURSIVE JoinLoop(_, _, _, _, _, _, _)
JoinLoop(vs, brk, ca, k, finalResult, err, rets) ==
  IF k > Len(vs) \/ k - 1 >= ca THEN [res |-> finalResult, rets |-> rets]
  ELSE LET r == Validator(vs[k], finalResult)
           c == Concat(err, r)
       IN IF ~c.res.isSuccess /\ brk
          THEN [res |-> c.res, rets |-> Append(rets, r)]
          ELSE JoinLoop(vs, brk, ca, k + 1, c.res, c.err, Append(rets, r))

Join(input, brk, vs, ca) ==
  IF Len(vs) = 0 \/ ca = 0 THEN [res |-> input, rets |-> << >>]
  ELSE LET r == Validator(vs[1], input)
           c == Concat(ErrNil, r)
       IN IF ca <= 1 THEN [res |-> c.res, rets |-> << r >>]
          ELSE IF c.res.isSuccess \/ ~brk
               THEN JoinLoop(vs, brk, ca, 2, c.res, c.err, << r >>)
               ELSE [res |-> c.res, rets |-> << r >>]

ValidateAll(input, brk, vs, ca) == Join(input, brk, vs, ca)

\* One call of ValidateAll on a success or a failure, with up to
\* MaxValidators validators and a ctx cancelled after `ca` of them (never,
\* if ca > MaxValidators).
ValidateAllCall ==
  /\ calc.op = "new"
  /\ \E input \in {Outcome(TRUE, 7, ErrNil), Outcome(FALSE, ZeroValue, ErrNew("boom"))} :
     \E brk \in BOOLEAN :
     \E vs \in SeqsUpTo({"ok", "negative", "odd", "pass"}, MaxValidators) :
     \E ca \in 0 .. MaxValidators + 1 :
       calc' = [op |-> "ValidateAll", arg |-> input, brk |-> brk, vs |-> vs,
                ca |-> ca, res |-> ValidateAll(input, brk, vs, ca).res,
                rets |-> ValidateAll(input, brk, vs, ca).rets]
  /\ UNCHANGED << cfg, poolVars, pipeVars, toChan >>

\* No call is made yet.
InitValidateAll ==
  InitState(IdleConfig) /\ PipeIdle /\ ToChanIdle /\ calc = [op |-> "new"]

SpecValidateAll == InitValidateAll /\ [][ValidateAllCall]_vars

-----------------------------------------------------------------------------
(* A pipeline without cancellation: the source channel, the pools of its  *)
(* stages (Run, Turnout), mass.Finalizing and the reader of its channel.  *)
(* With ctx never cancelled an adapter runs its solo function and hands   *)
(* the outcome to the Locomotive that called it: one step of the worker.  *)

\* The number of outcomes fed to a Finalizer standing alone.
MaxFinalInputs == 3

\* FinallyHandlers: OnSuccess is the identity, OnError and OnCancel encode
\* the error they are handed.
OnSuccessFn(v) == v
OnErrorFn(err) == IF err = "boom" THEN 0 - 1 ELSE 0 - 3
OnCancelFn(err) == IF err = "context canceled" THEN 0 - 2 ELSE 0 - 4

\* Faulty variant: a Cancelled outcome is reduced by OnError
FinallyNoCancel(input) ==
  IF input.isSuccess THEN OnSuccessFn(input.result) ELSE OnErrorFn(input.err)

\* solo.Finally
Finally(input) ==
  IF input.isSuccess THEN OnSuccessFn(input.result)
  ELSE IF input.isCancel THEN OnCancelFn(input.err)
  ELSE OnErrorFn(input.err)

NStages == Len(cfg.stages)
PipeRunning == pipePanic = "no"

\* The id of the outcome stage s creates for the outcome `o`.
PipeId(s, o) == NewId(o.id % (MaxInputs + 1), 2 + s)

SetStage(f, s, w, v) == [f EXCEPT ![s] = [@ EXCEPT ![w] = v]]

\* Locomotive of stage 1: case in, ok := <-inputCh, ok, on the source
StageRecvSource(w) ==
  /\ PipeRunning /\ NStages >= 1 /\ spc[1][w] = "next" /\ srcHead <= N
  /\ sval' = SetStage(sval, 1, w, cfg.src[srcHead])
  /\ srcHead' = srcHead + 1
  /\ spc' = SetStage(spc, 1, w, "stage")
  /\ UNCHANGED << cfg, poolVars, calc, toChan, fwdObs, finVars, stClosed, fpc, fval, fchClosed, gpc,
                  gval, finClosed, finals, pipePanic >>

\* Locomotive of stage s > 1: the rendezvous of its receive with the send
\* `outCh <- pr` of worker u of stage s - 1
StageRecvUpstream(s, w, u) ==
  /\ PipeRunning /\ s > 1 /\ spc[s][w] = "next" /\ spc[s - 1][u] = "fwd"
  /\ sval' = SetStage(sval, s, w, sval[s - 1][u])
  /\ spc' = [spc EXCEPT ![s] = [@ EXCEPT ![w] = "stage"],
                        ![s - 1] = [@ EXCEPT ![u] = "next"]]
  /\ UNCHANGED << cfg, poolVars, calc, toChan, fwdObs, finVars, srcHead, stClosed, fpc, fval,
                  fchClosed, gpc, gval, finClosed, finals, pipePanic >>

\* engine(ctx, in) and its delivery: the adapter of the stage
StageRun(s, w) ==
  /\ PipeRunning /\ spc[s][w] = "stage"
  /\ IF StagePanics(cfg.stages[s], sval[s][w])
     THEN /\ pipePanic' = "no results!"
          /\ UNCHANGED << spc, sval >>
     ELSE /\ sval' = SetStage(sval, s, w,
                       StageOut(cfg.stages[s], sval[s][w], PipeId(s, sval[s][w])))
          /\ spc' = SetStage(spc, s, w, "fwd")
          /\ UNCHANGED pipePanic
  /\ UNCHANGED << cfg, poolVars, calc, toChan, fwdObs, finVars, srcHead, stClosed, fpc, fval,
                  fchClosed, gpc, gval, finClosed, finals >>

\* Locomotive of stage 1: the source is closed and empty: return
StageSourceClosed(w) ==
  /\ PipeRunning /\ NStages >= 1 /\ spc[1][w] = "next" /\ srcHead > N
  /\ spc' = SetStage(spc, 1, w, "done")
  /\ UNCHANGED << cfg, poolVars, calc, toChan, fwdObs, finVars, srcHead, sval, stClosed, fpc, fval,
                  fchClosed, gpc, gval, finClosed, finals, pipePanic >>

\* Locomotive of stage s > 1: the output of stage s - 1 is closed: return
StageUpstreamClosed(s, w) ==
  /\ PipeRunning /\ s > 1 /\ spc[s][w] = "next" /\ stClosed[s - 1]
  /\ spc' = SetStage(spc, s, w, "done")
  /\ UNCHANGED << cfg, poolVars, calc, toChan, fwdObs, finVars, srcHead, sval, stClosed, fpc, fval,
                  fchClosed, gpc, gval, finClosed, finals, pipePanic >>

\* the closer of stage s: wg.Wait(); close(out)
StageCloseOut(s) ==
  /\ PipeRunning /\ ~stClosed[s]
  /\ \A w \in 1 .. cfg.lines : spc[s][w] = "done"
  /\ stClosed' = [stClosed EXCEPT ![s] = TRUE]
  /\ UNCHANGED << cfg, poolVars, calc, toChan, fwdObs, finVars, srcHead, spc, sval, fpc, fval,
                  fchClosed, gpc, gval, finClosed, finals, pipePanic >>

\* Finalizing, first goroutine moves to p: a return runs the deferred
\* close(ch), the cancel handlers are logged as they are invoked.
FinGoto(p) ==
  /\ fpc' = p
  /\ fchClosed' = (fchClosed \/ p = "done")
  /\ flog' = IF p = "hValue" THEN Append(flog, "OnCancelValue")
             ELSE IF p = "hValues" /\ fpc # "hValuesSend"
                  THEN Append(flog, "OnCancelValues")
                  ELSE flog

\* Finalizing, second goroutine moves to p: a return runs the deferred
\* close(out).
FwdGoto(p) ==
  /\ gpc' = p
  /\ finClosed' = (finClosed \/ p = "done")
  /\ glog' = IF p = "hResult" THEN Append(glog, "OnCancelResult")
             ELSE IF p = "hResults" /\ gpc # "hResultsSend"
                  THEN Append(glog, "OnCancelResults")
                  ELSE glog

\* Where the first goroutine goes when ctx is cancelled with an item pulled
\* (OnCancelValue, then OnCancelValues) and with none (OnCancelValues).
AfterPull == IF HasHandlers THEN "hValue" ELSE "done"
BeforePull == IF HasHandlers THEN "hValues" ELSE "done"

\* The second goroutine is at a receive from ch: its outer select, or the
\* range loop of OnCancelResults.
ChRecv == gpc = "recv" \/ (gpc = "hResults" /\ Required)

\* The second goroutine takes v from ch.
ChTake(v) ==
  /\ gval' = v
  /\ gpc' = IF gpc = "recv" THEN "send" ELSE "hResultsSend"
  /\ UNCHANGED << finClosed, glog >>

\* Finalizing, first goroutine: case in, ok := <-inputCh, ok, on the source;
\* res := solo.Finally(ctx, in, ...); if ctx.Err() != nil
FinRecvSource ==
  /\ PipeRunning /\ NStages = 0 /\ fpc = "recv" /\ srcHead <= N
  /\ fval' = Finally(cfg.src[srcHead])
  /\ fcur' = srcHead
  /\ frecv' = Append(frecv, cfg.src[srcHead])
  /\ srcHead' = srcHead + 1
  /\ FinGoto(IF cancelled THEN AfterPull ELSE "send")
  /\ UNCHANGED << cfg, poolVars, calc, toChan, fsent, fsucc, spc, sval, stClosed, gpc, gval,
                  finClosed, finals, pipePanic, glog, fdin >>

\* Finalizing, first goroutine: the rendezvous of its receive with the send
\* of worker u of the last stage; res := solo.Finally(ctx, in, ...)
FinRecvStage(u) ==
  /\ PipeRunning /\ NStages >= 1 /\ fpc = "recv" /\ spc[NStages][u] = "fwd"
  /\ fval' = Finally(sval[NStages][u])
  /\ frecv' = Append(frecv, sval[NStages][u])
  /\ spc' = SetStage(spc, NStages, u, "next")
  /\ fpc' = "send"
  /\ UNCHANGED << cfg, poolVars, calc, toChan, fsent, fsucc, finVars, srcHead, sval, stClosed, fchClosed,
                  gpc, gval, finClosed, finals, pipePanic >>

\* Finalizing, first goroutine: !ok on the source: return, close(ch)
FinSourceClosed ==
  /\ PipeRunning /\ NStages = 0 /\ fpc = "recv" /\ srcHead > N
  /\ fpc' = "done"
  /\ fchClosed' = TRUE
  /\ UNCHANGED << cfg, poolVars, calc, toChan, fwdObs, finVars, srcHead, spc, sval, stClosed, fval,
                  gpc, gval, finClosed, finals, pipePanic >>

\* Finalizing, first goroutine: !ok on the last stage's output: return,
\* close(ch)
FinStageClosed ==
  /\ PipeRunning /\ NStages >= 1 /\ fpc = "recv" /\ stClosed[NStages]
  /\ fpc' = "done"
  /\ fchClosed' = TRUE
  /\ UNCHANGED << cfg, poolVars, calc, toChan, fwdObs, finVars, srcHead, spc, sval, stClosed, fval,
                  gpc, gval, finClosed, finals, pipePanic >>

\* Finalizing: case ch <- res of the first goroutine meets a receive from ch
\* of the second
FinPass ==
  /\ PipeRunning /\ fpc = "send" /\ ChRecv
  /\ ChTake(fval)
  /\ fpc' = "recv"
  /\ UNCHANGED << cfg, poolVars, calc, toChan, fwdObs, srcHead, spc, sval, stClosed, fval,
                  fchClosed, finals, pipePanic, flog, fcur, fdin >>

\* Finalizing, second goroutine: !ok on ch: return, close(out)
FinChClosed ==
  /\ PipeRunning /\ gpc = "recv" /\ fchClosed
  /\ gpc' = "done"
  /\ finClosed' = TRUE
  /\ UNCHANGED << cfg, poolVars, calc, toChan, fwdObs, finVars, srcHead, spc, sval, stClosed, fpc,
                  fval, fchClosed, gval, finals, pipePanic >>

\* Faulty variant: the reader gets the latest value first
FinDeliverLatestFirst ==
  /\ PipeRunning /\ gpc = "send"
  /\ finals' = << gval >> \o finals
  /\ fsent' = Append(fsent, gval)
  /\ gpc' = IF HasOnSuccess THEN "succ" ELSE "recv"
  /\ UNCHANGED << cfg, poolVars, calc, toChan, finVars, srcHead, spc, sval, stClosed, fpc,
                  fval, fchClosed, gval, finClosed, pipePanic, fsucc, frecv >>

\* Faulty variant: the observer is not called
FinDeliverUnobserved ==
  /\ PipeRunning /\ gpc = "send"
  /\ finals' = Append(finals, gval)
  /\ fsent' = Append(fsent, gval)
  /\ gpc' = "recv"
  /\ UNCHANGED << cfg, poolVars, calc, toChan, finVars, srcHead, spc, sval, stClosed, fpc,
                  fval, fchClosed, gval, finClosed, pipePanic, fsucc, frecv >>

\* Finalizing, second goroutine: case out <- finalized, the reader ranging
\* over out
FinDeliver ==
  /\ PipeRunning /\ gpc = "send"
  /\ finals' = Append(finals, gval)
  /\ fsent' = Append(fsent, gval)
  /\ gpc' = IF HasOnSuccess THEN "succ" ELSE "recv"
  /\ UNCHANGED << cfg, poolVars, calc, toChan, finVars, srcHead, spc, sval, stClosed, fpc,
                  fval, fchClosed, gval, finClosed, pipePanic, fsucc, frecv >>

\* Finalizing, second goroutine: onSuccessResult(ctx, finalized)
FinOnSuccessResult ==
  /\ PipeRunning /\ gpc = "succ"
  /\ fsucc' = Append(fsucc, gval)
  /\ gpc' = "recv"
  /\ UNCHANGED << cfg, poolVars, calc, toChan, finVars, srcHead, spc, sval, stClosed, fpc,
                  fval, fchClosed, gval, finClosed, finals, pipePanic, fsent, frecv >>

\* Finalizing, first goroutine: if ctx.Err() != nil at entry
FinEntry ==
  /\ PipeRunning /\ fpc = "entry"
  /\ FinGoto(IF cancelled THEN BeforePull ELSE "recv")
  /\ UNCHANGED << cfg, poolVars, calc, toChan, fwdObs, srcHead, spc, sval, stClosed, fval,
                  gpc, gval, finClosed, finals, pipePanic, glog, fcur, fdin >>

\* Finalizing, first goroutine: outer select, case <-ctx.Done()
FinRecvCancel ==
  /\ PipeRunning /\ fpc = "recv" /\ cancelled
  /\ FinGoto(BeforePull)
  /\ UNCHANGED << cfg, poolVars, calc, toChan, fwdObs, srcHead, spc, sval, stClosed, fval,
                  gpc, gval, finClosed, finals, pipePanic, glog, fcur, fdin >>

\* Finalizing, first goroutine: inner select, case <-ctx.Done()
FinSendCancel ==
  /\ PipeRunning /\ fpc = "send" /\ cancelled
  /\ FinGoto(AfterPull)
  /\ UNCHANGED << cfg, poolVars, calc, toChan, fwdObs, srcHead, spc, sval, stClosed, fval,
                  gpc, gval, finClosed, finals, pipePanic, glog, fcur, fdin >>

\* OnCancelValue = CancelRemainingValue, !required
FinOnCancelValueSkip ==
  /\ PipeRunning /\ fpc = "hValue" /\ ~Required
  /\ FinGoto("hValues")
  /\ UNCHANGED << cfg, poolVars, calc, toChan, fwdObs, srcHead, spc, sval, stClosed, fval,
                  gpc, gval, finClosed, finals, pipePanic, glog, fcur, fdin >>

\* OnCancelValue = CancelRemainingValue, required: ch <- brokenF(ctx, in)
FinOnCancelValue ==
  /\ PipeRunning /\ fpc = "hValue" /\ Required /\ ChRecv
  /\ ChTake(BrokenFn(cfg.src[fcur]))
  /\ fpc' = "hValues"
  /\ flog' = Append(flog, "OnCancelValues")
  /\ UNCHANGED << cfg, poolVars, calc, toChan, fwdObs, srcHead, spc, sval, stClosed, fval,
                  fchClosed, finals, pipePanic, fcur, fdin >>

\* OnCancelValues = CancelRemainingValues, !required: return; close(ch)
FinOnCancelValuesSkip ==
  /\ PipeRunning /\ fpc = "hValues" /\ ~Required
  /\ FinGoto("done")
  /\ UNCHANGED << cfg, poolVars, calc, toChan, fwdObs, srcHead, spc, sval, stClosed, fval,
                  gpc, gval, finClosed, finals, pipePanic, glog, fcur, fdin >>

\* CancelRemainingValues: for in := range inputCh, an item
FinOnCancelValuesPull ==
  /\ PipeRunning /\ fpc = "hValues" /\ Required /\ NStages = 0 /\ srcHead <= N
  /\ fdin' = srcHead
  /\ srcHead' = srcHead + 1
  /\ FinGoto("hValuesSend")
  /\ UNCHANGED << cfg, poolVars, calc, toChan, fwdObs, spc, sval, stClosed, fval,
                  gpc, gval, finClosed, finals, pipePanic, glog, fcur >>

\* CancelRemainingValues: ch <- brokenF(ctx, in)
FinOnCancelValuesSend ==
  /\ PipeRunning /\ fpc = "hValuesSend" /\ ChRecv
  /\ ChTake(BrokenFn(cfg.src[fdin]))
  /\ fpc' = "hValues"
  /\ UNCHANGED << cfg, poolVars, calc, toChan, fwdObs, srcHead, spc, sval, stClosed, fval,
                  fchClosed, finals, pipePanic, flog, fcur, fdin >>

\* CancelRemainingValues: the range loop ends, inputCh closed and empty;
\* return; close(ch)
FinOnCancelValuesEnd ==
  /\ PipeRunning /\ fpc = "hValues" /\ Required /\ NStages = 0 /\ srcHead > N
  /\ FinGoto("done")
  /\ UNCHANGED << cfg, poolVars, calc, toChan, fwdObs, srcHead, spc, sval, stClosed, fval,
                  gpc, gval, finClosed, finals, pipePanic, glog, fcur, fdin >>

\* Finalizing, second goroutine: outer select, case <-ctx.Done()
FinFwdRecvCancel ==
  /\ PipeRunning /\ gpc = "recv" /\ cancelled
  /\ FwdGoto(IF HasHandlers THEN "hResults" ELSE "done")
  /\ UNCHANGED << cfg, poolVars, calc, toChan, fwdObs, srcHead, spc, sval, stClosed, fpc, fval,
                  fchClosed, gval, finals, pipePanic, flog, fcur, fdin >>

\* Finalizing, second goroutine: inner select, case <-ctx.Done():
\* OnCancelResult(ctx, finalized, out); return
FinFwdSendCancel ==
  /\ PipeRunning /\ gpc = "send" /\ cancelled
  /\ FwdGoto(IF HasHandlers THEN "hResult" ELSE "done")
  /\ UNCHANGED << cfg, poolVars, calc, toChan, fwdObs, srcHead, spc, sval, stClosed, fpc, fval,
                  fchClosed, gval, finals, pipePanic, flog, fcur, fdin >>

\* OnCancelResult = CancelResult, !required; return; close(out)
FinOnCancelResultSkip ==
  /\ PipeRunning /\ gpc = "hResult" /\ ~Required
  /\ FwdGoto("done")
  /\ UNCHANGED << cfg, poolVars, calc, toChan, fwdObs, srcHead, spc, sval, stClosed, fpc, fval,
                  fchClosed, gval, finals, pipePanic, flog, fcur, fdin >>

\* OnCancelResult = CancelResult, required: out <- finalized; return;
\* close(out)
FinOnCancelResult ==
  /\ PipeRunning /\ gpc = "hResult" /\ Required
  /\ finals' = Append(finals, gval)
  /\ FwdGoto("done")
  /\ UNCHANGED << cfg, poolVars, calc, toChan, fwdObs, srcHead, spc, sval, stClosed, fpc, fval,
                  fchClosed, gval, pipePanic, flog, fcur, fdin >>

\* OnCancelResults = CancelResults, !required; return; close(out)
FinOnCancelResultsSkip ==
  /\ PipeRunning /\ gpc = "hResults" /\ ~Required
  /\ FwdGoto("done")
  /\ UNCHANGED << cfg, poolVars, calc, toChan, fwdObs, srcHead, spc, sval, stClosed, fpc, fval,
                  fchClosed, gval, finals, pipePanic, flog, fcur, fdin >>

\* CancelResults: out <- in, the item taken from ch
FinOnCancelResultsSend ==
  /\ PipeRunning /\ gpc = "hResultsSend"
  /\ finals' = Append(finals, gval)
  /\ FwdGoto("hResults")
  /\ UNCHANGED << cfg, poolVars, calc, toChan, fwdObs, srcHead, spc, sval, stClosed, fpc, fval,
                  fchClosed, gval, pipePanic, flog, fcur, fdin >>

\* CancelResults: the range loop ends, ch closed; return; close(out)
FinOnCancelResultsEnd ==
  /\ PipeRunning /\ gpc = "hResults" /\ Required /\ fchClosed
  /\ FwdGoto("done")
  /\ UNCHANGED << cfg, poolVars, calc, toChan, fwdObs, srcHead, spc, sval, stClosed, fpc, fval,
                  fchClosed, gval, finals, pipePanic, flog, fcur, fdin >>

\* The pipeline as built: every worker at its first receive.
InitPipe(c) ==
  /\ cfg = c /\ PoolInit(IdleConfig) /\ CalcIdle /\ ToChanIdle
  /\ srcHead = 1
  /\ spc = [s \in 1 .. Len(c.stages) |-> [w \in 1 .. c.lines |-> "next"]]
  /\ sval = [s \in 1 .. Len(c.stages) |-> [w \in 1 .. c.lines |-> Fail(NoErr, 0)]]
  /\ stClosed = [s \in 1 .. Len(c.stages) |-> FALSE]
  /\ fpc = "recv"
  /\ fval = ZeroValue
  /\ fchClosed = FALSE
  /\ gpc = "recv"
  /\ gval = ZeroValue
  /\ finClosed = FALSE
  /\ finals = << >>
  /\ pipePanic = "no"
  /\ flog = << >> /\ glog = << >> /\ fcur = 0 /\ fdin = 0
  /\ fsent = << >> /\ fsucc = << >> /\ frecv = << >>

PipeConfig(src, stages, lines) ==
  [src |-> src, stages |-> stages, lines |-> lines, kind |-> "Map",
   profile |-> "lite", popt |-> "unset", ckind |-> "range", closedIn |-> TRUE]

\* lite.Finally on a closed channel of up to MaxFinalInputs outcomes.
FinalConfigs ==
  {PipeConfig(WithIds(q), << >>, 1) : q \in SeqsUpTo(AdapterItems, MaxFinalInputs)}

\* lite.Finally(lite.Turnout(lite.Run(source, k1, lines), k2, lines)), for
\* every stage k2 after a first stage k1 that can fail an outcome, or Map.
PipeConfigs ==
  {PipeConfig(WithIds(q), << k1, k2 >>, l) :
     q \in SeqsUpTo(AdapterItems, MaxInputs),
     k1 \in {"Validate", "Switch", "Try", "Map"}, k2 \in Kinds,
     l \in 1 .. MaxLines}

\* The goroutines of mass.Finalizing.
FinStep ==
  \/ FinPass
  \/ FinChClosed
  \/ FinDeliver

NextFinally ==
  \/ FinRecvSource
  \/ FinSourceClosed
  \/ FinStep

NextPipeline ==
  \/ \E w \in 1 .. cfg.lines : StageRecvSource(w)
  \/ \E s \in 1 .. NStages : \E w \in 1 .. cfg.lines : \E u \in 1 .. cfg.lines :
       StageRecvUpstream(s, w, u)
  \/ \E s \in 1 .. NStages : \E w \in 1 .. cfg.lines : StageRun(s, w)
  \/ \E w \in 1 .. cfg.lines : StageSourceClosed(w)
  \/ \E s \in 1 .. NStages : \E w \in 1 .. cfg.lines : StageUpstreamClosed(s, w)
  \/ \E s \in 1 .. NStages : StageCloseOut(s)
  \/ \E u \in 1 .. cfg.lines : FinRecvStage(u)
  \/ FinStageClosed
  \/ FinStep

\* The Go scheduler runs every goroutine that can take a step.
FairSpecFinally ==
  /\ \E c \in FinalConfigs : InitPipe(c)
  /\ [][NextFinally]_vars
  /\ WF_vars(NextFinally)

FairSpecPipeline ==
  /\ \E c \in PipeConfigs : InitPipe(c)
  /\ [][NextPipeline]_vars
  /\ WF_vars(NextPipeline)

\* custom.Finally (the four drain helpers installed, the toggle set, unset
\* or off) and lite.Finally (no cancel handlers) on a closed channel of up
\* to MaxFinalInputs outcomes, under a context that may be cancelled.
FinalizingConfigs ==
  {[PipeConfig(WithIds(q), << >>, 1) EXCEPT !.profile = pf, !.popt = po] :
     q \in SeqsUpTo(AdapterItems, MaxFinalInputs),
     pf \in {"custom", "lite"}, po \in {"unset", "on", "off"}}

\* Finalizing is called: both goroutines start, ctx is live.
InitFinalizing ==
  \E c \in FinalizingConfigs :
    /\ cfg = c /\ PoolInit(IdleConfig) /\ CalcIdle /\ ToChanIdle
    /\ srcHead = 1 /\ spc = << >> /\ sval = << >> /\ stClosed = << >>
    /\ fpc = "entry" /\ fval = ZeroValue /\ fchClosed = FALSE
    /\ gpc = "recv" /\ gval = ZeroValue /\ finClosed = FALSE
    /\ finals = << >> /\ pipePanic = "no"
    /\ flog = << >> /\ glog = << >> /\ fcur = 0 /\ fdin = 0
    /\ fsent = << >> /\ fsucc = << >> /\ frecv = << >>

\* The steps of Finalizing's two goroutines.
FinalizingStep ==
  \/ FinEntry
  \/ FinRecvSource
  \/ FinSourceClosed
  \/ FinRecvCancel
  \/ FinSendCancel
  \/ FinOnCancelValueSkip
  \/ FinOnCancelValue
  \/ FinOnCancelValuesSkip
  \/ FinOnCancelValuesPull
  \/ FinOnCancelValuesSend
  \/ FinOnCancelValuesEnd
  \/ FinPass
  \/ FinChClosed
  \/ FinDeliver
  \/ FinOnSuccessResult
  \/ FinFwdRecvCancel
  \/ FinFwdSendCancel
  \/ FinOnCancelResultSkip
  \/ FinOnCancelResult
  \/ FinOnCancelResultsSkip
  \/ FinOnCancelResultsSend
  \/ FinOnCancelResultsEnd

NextFinalizing ==
  \/ FinalizingStep
  \/ CancelCtx

\* The Go scheduler runs every goroutine that can take a step; nothing
\* obliges the caller to cancel.
FairSpecFinalizing ==
  InitFinalizing /\ [][NextFinalizing]_vars /\ WF_vars(FinalizingStep)

-----------------------------------------------------------------------------
(* Properties *)

AllDone == \A w \in Workers : pc[w] = "done"
Fwd(k) == received[k].via = "fwd"
Markers == {k \in 1 .. Len(received) : received[k].via = "marker"}

\* C1: the pool's output is closed only after every worker loop has
\* terminated, and no send on it happens after the close (such a send
\* panics), handlers' sends included.
C1_JoinThenClose ==
  /\ outClosed => AllDone
  /\ panicked # "send on closed channel"

C1_Witness ==
  /\ outClosed /\ cancelled /\ cfg.lines = 2 /\ N = 2
  /\ Len(received) = 2 /\ Markers # {}

\* C2: a single-worker pool (RunSingle) without cancellation emits the
\* stage results in the order of the inputs, and calls onSuccess in that
\* order.
C2_SingleWorkerOrder ==
  (cfg.lines = RunSingleLines /\ ~cancelled) =>
     /\ Len(received) <= N
     /\ \A k \in 1 .. Len(received) :
          received[k].o = StageOut(cfg.kind, cfg.src[k], NewId(k, 1))
     /\ Len(succLog) <= Len(received)
     /\ \A k \in 1 .. Len(succLog) : succLog[k] = received[k].o

C2_Witness ==
  /\ cfg.lines = RunSingleLines /\ ~cancelled /\ outClosed /\ N = 2
  /\ cfg.src[1].isSuccess /\ cfg.src[2].isCancel
  /\ Len(received) = 2 /\ Len(succLog) = 2

\* C4: with the drain helpers installed and enabled, a closed input of n
\* outcomes and a consumer reading to the end, forwarded outputs plus
\* markers number n once the output is closed.
C4_DrainRoundTrip ==
  (/\ cfg.profile = "custom" /\ cfg.popt = "on" /\ cfg.closedIn
   /\ cfg.ckind = "range" /\ outClosed) => Len(received) = N

\* C5: with no "process remaining" setting in the context the drain
\* helpers emit nothing.
C5_UnsetIsDisabled == cfg.popt = "unset" => Markers = {}

\* When the output is closed without cancellation it holds exactly the
\* stage results of the inputs, each input delivered by its adapter once.
C3_Complete ==
  (outClosed /\ ~cancelled) =>
     /\ Len(received) = N
     /\ {received[k].o : k \in 1 .. Len(received)}
          = {StageOut(cfg.kind, cfg.src[i], NewId(i, 1)) : i \in Idx}
     /\ \A i \in Idx : dlc[i] = 1 /\ fcnt[i] = SuccessCalls(cfg.kind, cfg.src[i])

\* C3: without cancellation the output, once closed, holds exactly the
\* stage results (C3_Complete, in every state), and over a closed input it
\* is eventually closed.
C3_AllProcessedOnce ==
  /\ []C3_Complete
  /\ <>(cancelled \/ ~cfg.closedIn \/ outClosed)

C3_Witness ==
  /\ outClosed /\ ~cancelled /\ cfg.lines = 2 /\ N = 2
  /\ Len(received) = 2 /\ received[1].o.id = NewId(2, 1)

\* C9: in a pool without cancellation handlers, once the context is
\* cancelled every worker terminates and the output is closed, whatever
\* the input channel and the consumer do.
C9_CancelTerminates ==
  [](cancelled /\ cfg.profile = "lite" => <>(AllDone /\ outClosed))

C9_Witness ==
  /\ cfg.profile = "lite" /\ cancelled /\ ~cfg.closedIn /\ cpc = "stopped"
  /\ outClosed /\ AllDone /\ Len(received) < inHead - 1

Started(i) == bpc[i] # "idle"

\* C6: every adapter invocation with an onCancel ends in exactly one of:
\* its outcome delivered on the returned channel, onCancel invoked.  Once
\* the caller has returned, a B that has left its select is settled.
C6_ExactlyOne ==
  \A i \in Idx :
    (HasAdapterOnCancel /\ AllDone /\ bpc[i] \in {"deliver", "done"})
      => dlc[i] + cb[i] = 1

\* An adapter invoked with the context already cancelled never calls the
\* stage function, delivers nothing, and has called onCancel (when
\* supplied) once when it closes the returned channel.
C7_NothingRun ==
  \A i \in Idx : cancAtCall[i] =>
    /\ fcnt[i] = 0 /\ ecnt[i] = 0 /\ dlc[i] = 0 /\ bpc[i] # "deliver"
    /\ cb[i] <= 1
    /\ outCl[i] => cb[i] = (IF HasAdapterOnCancel THEN 1 ELSE 0)

\* C7: an adapter invoked with the context already cancelled runs nothing
\* (C7_NothingRun, in every state) and eventually closes the returned
\* channel.  An adapter specification runs one invocation: its index is 1.
C7_CancelledAtEntry ==
  /\ []C7_NothingRun
  /\ \A i \in {1} : [](cancAtCall[i] => <>outCl[i])

C7_Witness ==
  /\ cancAtCall[1] /\ outCl[1] /\ cb[1] = 1 /\ cfg.src[1].isSuccess
  /\ pc[1] = "done"

\* While the context is not cancelled, an adapter invoked on a Succeeded
\* input does not call onCancel, and has delivered one outcome when it
\* closes the returned channel.
C8_Delivers ==
  \A i \in Idx : (~cancelled /\ cfg.src[i].isSuccess) =>
    /\ cb[i] = 0 /\ bpc[i] # "cb"
    /\ dlc[i] <= 1
    /\ outCl[i] => dlc[i] = 1

\* C8: without cancellation an adapter on a Succeeded input never calls
\* onCancel and delivers at most once (C8_Delivers, in every state), and it
\* eventually closes the returned channel, having delivered.
C8_DeliversOnce ==
  /\ []C8_Delivers
  /\ \A i \in {1} :
       [](Started(i) /\ cfg.src[i].isSuccess => <>(cancelled \/ outCl[i]))

C8_Witness ==
  /\ ~cancelled /\ cfg.src[1].isSuccess /\ outCl[1] /\ dlc[1] = 1
  /\ cb[1] = 0 /\ HasAdapterOnCancel

\* C10: a Failed or Cancelled outcome passes every stage unchanged: the
\* success function is not called, and what is delivered has the state,
\* the error and the id of what entered.
C10_PassThrough ==
  \A i \in Idx : (~cancelled /\ ~cfg.src[i].isSuccess) =>
    /\ fcnt[i] = 0
    /\ dlc[i] = 1 =>
         /\ val[i].isSuccess = cfg.src[i].isSuccess
         /\ val[i].isCancel = cfg.src[i].isCancel
         /\ val[i].err = cfg.src[i].err
         /\ val[i].id = cfg.src[i].id

\* C10, without the id and without Validate.
C10_StateAndError ==
  \A i \in Idx : (~cancelled /\ ~cfg.src[i].isSuccess /\ cfg.kind # "Validate") =>
    /\ fcnt[i] = 0
    /\ dlc[i] = 1 =>
         /\ val[i].isSuccess = cfg.src[i].isSuccess
         /\ val[i].isCancel = cfg.src[i].isCancel
         /\ val[i].err = cfg.src[i].err

\* C11: a stage handed an outcome whose processed flag is set forwards it
\* unchanged (state, value, error, id, processed flag) and calls none of
\* its functions.  (A call that panics leaves res = arg: what Validating
\* does on an outcome without a result is not what is stated here.)
C11_ProcessedForwarded ==
  (calc.op \in Kinds /\ calc.arg.isProcessed) =>
    /\ calc.res = calc.arg
    /\ calc.calls = 0

\* C12: every outcome the constructors, the transforms and the stages
\* produce is in exactly one of the states Succeeded (isSuccess), Cancelled
\* (isCancel), Failed (neither), and has a result iff it is Succeeded.
C12_OneState ==
  calc.op # "none" =>
    /\ ~(calc.res.isSuccess /\ calc.res.isCancel)
    /\ calc.res.hasResult <=> calc.res.isSuccess

C12_Witness ==
  /\ calc.op = "Tee" /\ calc.n = 2
  /\ calc.res.isProcessed /\ calc.res.isCancel /\ ~calc.res.hasResult

\* What stages k, k + 1, ... make of the outcome o.
RECURSIVE Through(_, _, _)
Through(stages, k, o) ==
  IF k > Len(stages) THEN o
  ELSE Through(stages, k + 1, StageOut(stages[k], o, PipeId(k, o)))

\* The final value of input i.
Expected(i) == Finally(Through(cfg.stages, 1, cfg.src[i]))

Count(q, v) == Cardinality({k \in DOMAIN q : q[k] = v})

\* Once the Finalizer's channel is closed it has carried one final value
\* per input: as many of each value as there are inputs reduced to it.
C13_Final ==
  (fpc # "idle" /\ finClosed) =>
     /\ Len(finals) = N
     /\ \A i \in Idx : Count(finals, Expected(i))
                         = Cardinality({j \in Idx : Expected(j) = Expected(i)})

\* C13: without cancellation a pipeline of pools ending in a Finalizer
\* emits one final value per source input (OnSuccess, OnError or OnCancel
\* of what the stages made of it) and closes its channel.
C13_OnePerInput ==
  /\ []C13_Final
  /\ <>finClosed

\* C13 but for the panic of Validating on an outcome without a result.
C13_UnlessPanic ==
  /\ []C13_Final
  /\ <>(finClosed \/ pipePanic # "no")

\* The k-th final value is the reduction of the k-th input, and a closed
\* channel has carried them all.
C14_Reduced ==
  (fpc # "idle" /\ NStages = 0) =>
     /\ Len(finals) <= N
     /\ \A k \in 1 .. Len(finals) :
          finals[k] = IF cfg.src[k].isSuccess THEN OnSuccessFn(cfg.src[k].result)
                      ELSE IF cfg.src[k].isCancel THEN OnCancelFn(cfg.src[k].err)
                      ELSE OnErrorFn(cfg.src[k].err)
     /\ finClosed => Len(finals) = N

\* C14: without cancellation the Finalizer emits one value per input
\* outcome (OnSuccess of the value, OnError or OnCancel of the error) and
\* then closes its channel.
C14_FinalizerReduces ==
  /\ []C14_Reduced
  /\ <>finClosed

C14_Witness ==
  /\ fpc # "idle" /\ NStages = 0 /\ finClosed /\ N = 3
  /\ cfg.src[1].isSuccess /\ cfg.src[2].isSuccess /\ ~cfg.src[3].isSuccess
  /\ ~cfg.src[3].isCancel /\ finals = << 1, 2, 0 - 1 >>

\* The pending input the single-item helper was handed (0: none).
Pending == cur[1]

\* The error of the Cancelled outcome the helpers emit for input i.
MarkerErr(i) == IF cfg.src[i].isCancel THEN cfg.src[i].err ELSE ErrCancelled

IsMarkerOf(o, i) == o.isCancel /\ ~o.isSuccess /\ ~o.hasResult /\ o.err = MarkerErr(i)

\* C15: with the drain toggle enabled CancelRemainingResult emits exactly
\* one Cancelled outcome for its pending input, carrying the input's own
\* error if the input was Cancelled and ErrCancelled otherwise.
C15_SinglePending ==
  (fpc = "idle" /\ Helper = "Result" /\ Required /\ Pending # 0
     /\ pc[1] # "hUnproc") =>
     /\ Len(received) >= 1
     /\ IsMarkerOf(received[1].o, Pending)
     /\ received[1].via = "marker"
     /\ (pc[1] = "hCancel" /\ inHead = 2) => Len(received) = 1

C15_Witness ==
  /\ fpc = "idle" /\ Helper = "Result" /\ cfg.popt = "on" /\ Pending = 1
  /\ pc[1] = "hCancel" /\ inHead = 2
  /\ ~cfg.src[1].isSuccess /\ ~cfg.src[1].isCancel
  /\ Len(received) = 1 /\ received[1].o.err = ErrCancelled

\* The items CancelRemainingResults has taken from the input channel are
\* Pending + 1 .. inHead - 1; item k is answered by the k-th output.
C16_Drained ==
  (fpc = "idle" /\ Helper = "Result" /\ Required) =>
     /\ Len(received) = inHead - 1 - (IF pc[1] \in {"hUnproc", "hDrain"} THEN 1 ELSE 0)
     /\ \A k \in Pending + 1 .. Len(received) :
          IsMarkerOf(received[k].o, k) /\ received[k].via = "marker"
     /\ pc[1] = "done" => cfg.closedIn /\ inHead = N + 1

\* C16: with the drain toggle enabled CancelRemainingResults takes every
\* item left in the input channel and emits one Cancelled outcome per
\* item, in order, by the single-item rule; it returns when the channel
\* is closed and empty, and only then.
C16_DrainsAll ==
  /\ []C16_Drained
  /\ <>((fpc = "idle" /\ Helper = "Result" /\ Required /\ cfg.closedIn)
          => pc[1] = "done")

C16_Witness ==
  /\ fpc = "idle" /\ Helper = "Result" /\ cfg.popt = "unset" /\ Pending = 0
  /\ N = 3 /\ pc[1] = "done" /\ Len(received) = 3
  /\ cfg.src[1].isSuccess /\ cfg.src[2].isCancel
  /\ received[2].o.err = "context canceled"
  /\ ~cfg.src[3].isSuccess /\ ~cfg.src[3].isCancel

\* With the toggle off nothing is emitted and nothing is taken from the
\* input channel.
C17_Untouched ==
  (fpc = "idle" /\ "helper" \in DOMAIN cfg /\ cfg.popt = "off") =>
     /\ received = << >>
     /\ inHead = (IF Pending # 0 THEN 2 ELSE 1)
     /\ din[1] = 0

\* C17: with the drain toggle explicitly disabled every drain helper emits
\* nothing, takes nothing from the input channel and returns, whether or
\* not the input channel is closed.
C17_DisabledNoOp ==
  /\ []C17_Untouched
  /\ <>((fpc = "idle" /\ "helper" \in DOMAIN cfg /\ cfg.popt = "off")
          => pc[1] = "done" /\ outClosed)

C17_Witness ==
  /\ fpc = "idle" /\ Helper = "Value" /\ cfg.popt = "off" /\ ~cfg.closedIn
  /\ N = 3 /\ Pending = 1 /\ pc[1] = "done" /\ cpc = "done"
  /\ received = << >> /\ inHead = 2

\* A pool that emits nothing on cancellation: no handlers, or the drain
\* toggle off.
Silent == ~HasHandlers \/ ~Required

\* The output of a cancelled silent pool carries stage results only, and
\* the pool closes it.
C18_ClosesNoMarkers ==
  /\ [](Silent => \A k \in 1 .. Len(received) : Fwd(k))
  /\ (Silent /\ cancelled) ~> outClosed

\* C18: a silent pool cancelled before every input was forwarded still
\* closes its output, which carries fewer outputs than there were inputs
\* and no Cancelled marker made by the engine.
C18_FewerOutputs ==
  /\ [][(Silent /\ cancelled /\ Len(received) < N) => Len(received') < N]_vars
  /\ C18_ClosesNoMarkers

\* C19: Then, ThenTry, Map, RepeatUntil, RepeatChainUntil, While and
\* WhileChain on a chain whose result is a failure or is processed return
\* the chain as it is and call neither the function nor the predicate.
C19_ShortCircuit ==
  (calc.op \in TinyOps /\ (~calc.arg.isSuccess \/ calc.arg.isProcessed)) =>
     /\ calc.res = calc.arg
     /\ calc.calls = 0

C19_Witness ==
  /\ calc.op = "RepeatUntil" /\ calc.n = 2
  /\ calc.arg.isSuccess /\ calc.arg.isProcessed /\ calc.arg.id = 10
  /\ calc.res = calc.arg /\ calc.calls = 0

\* The validators that returned a failure, by position.
Failing == {k \in DOMAIN calc.rets : ~calc.rets[k].isSuccess}

\* The errors the failing validators returned, in validator order.
FailingErrs ==
  LET f == SelectSeq(calc.rets, LAMBDA r : ~r.isSuccess)
  IN [k \in 1 .. Len(f) |-> f[k].err]

Invoked(w, h) == Cardinality({k \in DOMAIN hlog[w] : hlog[w][k] = h})

\* C22: a worker waiting for the next input that observes cancellation
\* invokes OnCancel once (if supplied) and terminates without pulling an
\* input; one that observes the input closed and empty terminates without
\* invoking a handler.
C22_AwaitNext ==
  /\ [][\A w \in Workers : (pc[w] = "next" /\ pc'[w] # "next") =>
          \/ /\ InputReady /\ pc'[w] = "call"
             /\ cur'[w] = inHead /\ hlog'[w] = hlog[w]
          \/ /\ cancelled /\ HasHandlers /\ pc'[w] = "hCancel"
             /\ hlog'[w] = Append(hlog[w], "OnCancel")
             /\ inHead' = inHead /\ cur'[w] = cur[w]
          \/ /\ cancelled /\ ~HasHandlers /\ pc'[w] = "done"
             /\ hlog'[w] = hlog[w] /\ inHead' = inHead
          \/ /\ InputExhausted /\ pc'[w] = "done"
             /\ hlog'[w] = hlog[w] /\ inHead' = inHead]_vars
  /\ [](\A w \in Workers :
          /\ Invoked(w, "OnCancel") <= 1
          /\ Invoked(w, "OnCancel") = 1 => pc[w] \in {"hCancel", "hDrain", "done"})

C22_Witness ==
  \E w \in Workers :
    /\ fpc = "idle" /\ calc.op = "none" /\ HasHandlers
    /\ pc[w] = "done" /\ hlog[w] = << "OnCancel" >> /\ cur[w] = 0
    /\ inHead <= N

\* C23: a worker that pulled an input and terminated because ctx was
\* cancelled before the stage delivered a result for it has invoked
\* OnCancelUnprocessed and then OnCancel, each once.
C23_UnprocessedThenCancel ==
  \A w \in Workers :
    (HasHandlers /\ cancelled /\ pc[w] = "done" /\ cur[w] # 0 /\ dlc[cur[w]] = 0) =>
       hlog[w] = << "OnCancelUnprocessed", "OnCancel" >>

\* The same of the workers whose inner select took ctx.Done().
C23_WhenObserved ==
  \A w \in Workers :
    (HasHandlers /\ Invoked(w, "OnCancelUnprocessed") > 0) =>
       /\ pc[w] \in {"hUnproc", "hCancel", "hDrain", "done"}
       /\ cur[w] # 0 /\ dlc[cur[w]] = 0
       /\ hlog[w] = IF pc[w] = "hUnproc" THEN << "OnCancelUnprocessed" >>
                    ELSE << "OnCancelUnprocessed", "OnCancel" >>

\* The positions of the received items that are the output o sent by `via`.
SentAs(o, via) ==
  {k \in 1 .. Len(received) : received[k].o = o /\ received[k].via = via}

\* C24: a worker leaves the innermost select either by sending the output it
\* holds or, on cancellation, without sending it: with handlers it goes on to
\* OnCancelProcessed and then OnCancel, each once and in that order, and the
\* held output reaches the stream only through the handler, at most once.
C24_ProcessedThenCancel ==
  /\ [][\A w \in Workers : (pc[w] = "fwd" /\ pc'[w] # "fwd") =>
          \/ /\ received' = Append(received, [o |-> pr[w], via |-> "fwd"])
             /\ pc'[w] \in {"succ", "next"} /\ hlog'[w] = hlog[w]
          \/ /\ cancelled /\ HasHandlers /\ received' = received
             /\ pc'[w] = "hProc" /\ pr'[w] = pr[w] /\ cur'[w] = cur[w]
             /\ hlog'[w] = Append(hlog[w], "OnCancelProcessed")
          \/ /\ cancelled /\ ~HasHandlers /\ received' = received
             /\ pc'[w] = "done" /\ hlog'[w] = hlog[w]]_vars
  /\ [](\A w \in Workers : Invoked(w, "OnCancelProcessed") > 0 =>
          /\ pc[w] \in {"hProc", "hCancel", "hDrain", "done"}
          /\ hlog[w] = IF pc[w] = "hProc" THEN << "OnCancelProcessed" >>
                       ELSE << "OnCancelProcessed", "OnCancel" >>
          /\ SentAs(pr[w], "fwd") = {}
          /\ Cardinality(SentAs(pr[w], "reemit")) =
                IF pc[w] = "hProc" \/ panicked # "no" THEN 0 ELSE 1)

C24_Witness ==
  \E w \in Workers :
    /\ fpc = "idle" /\ calc.op = "none" /\ HasHandlers /\ cancelled
    /\ pc[w] = "done" /\ hlog[w] = << "OnCancelProcessed", "OnCancel" >>
    /\ SentAs(pr[w], "fwd") = {} /\ Cardinality(SentAs(pr[w], "reemit")) = 1

\* C25: onSuccess is called once for every output the loop sent, after the
\* send and with that output, and for nothing else; a run that ends without
\* cancellation has called it once per input.
C25_OnSuccessPerSend ==
  /\ [][succLog' # succLog =>
          \E w \in Workers :
            /\ pc[w] = "succ" /\ pc'[w] = "next"
            /\ succLog' = Append(succLog, pr[w])
            /\ SentAs(pr[w], "fwd") # {}]_vars
  /\ [](/\ ~HasOnSuccess => succLog = << >>
        /\ HasOnSuccess =>
             Len(succLog) + Cardinality({w \in Workers : pc[w] = "succ"})
               = Cardinality({k \in 1 .. Len(received) : Fwd(k)})
        /\ \A j \in 1 .. Len(succLog) :
             /\ Cardinality(SentAs(succLog[j], "fwd")) = 1
             /\ \A k \in 1 .. Len(succLog) : succLog[k] = succLog[j] => k = j
        /\ (HasOnSuccess /\ AllDone /\ ~cancelled) => Len(succLog) = N)

C25_Witness ==
  /\ fpc = "idle" /\ calc.op = "none" /\ HasOnSuccess /\ AllDone /\ ~cancelled
  /\ N = MaxInputs /\ Len(succLog) = N
  /\ \A j \in 1 .. N : SentAs(succLog[j], "fwd") # {}

\* The positions of the loop itself, and those inside its handlers.
LoopPositions == {"next", "call", "stage", "fwd", "succ"}
HandlerPositions == {"hUnproc", "hProc", "hCancel", "hDrain"}

\* C26: a worker terminates only from AwaitNext on an exhausted input or
\* from a checkpoint that took its ctx.Done() case: with handlers through
\* OnCancel returning, without handlers straight from the checkpoint.
C26_TerminatedOnlyFrom ==
  [][\A w \in Workers : (pc[w] # "done" /\ pc'[w] = "done") =>
        \/ pc[w] = "next" /\ InputExhausted /\ hlog[w] = << >>
        \/ /\ HasHandlers /\ cancelled /\ pc[w] \in {"hCancel", "hDrain"}
           /\ Invoked(w, "OnCancel") = 1
        \/ ~HasHandlers /\ cancelled /\ pc[w] \in {"next", "stage", "fwd"}]_vars

\* The rest of C26: Terminated is absorbing, OnCancel is invoked at most
\* once, and a worker that took a ctx.Done() case is never again at a
\* position of the loop, where it would pull, start the stage or send.
C26_Absorbing ==
  /\ [][\A w \in Workers : pc[w] = "done" =>
          pc'[w] = "done" /\ hlog'[w] = hlog[w] /\ cur'[w] = cur[w]]_vars
  /\ [](\A w \in Workers :
          /\ Invoked(w, "OnCancel") <= 1
          /\ hlog[w] # << >> => pc[w] \in HandlerPositions \cup {"done"})
  /\ [][\A w \in Workers :
          (pc[w] \in {"next", "stage", "fwd"} /\ pc'[w] \in HandlerPositions \cup {"done"}
             /\ ~(pc[w] = "next" /\ InputExhausted) /\ ~(pc[w] = "stage" /\ outCl[cur[w]]))
            => cancelled]_vars

\* C27: SetProcessed(r) has the id, creation time, state, value and error of
\* r and processed = true; CancelFrom(r) has the id, creation time, state and
\* error of r.
C27_IdPreserved ==
  /\ calc.op = "SetProcessed" =>
       /\ calc.res.id = calc.arg.id /\ calc.res.createdAt = calc.arg.createdAt
       /\ calc.res.isSuccess = calc.arg.isSuccess /\ calc.res.isCancel = calc.arg.isCancel
       /\ calc.res.hasResult = calc.arg.hasResult /\ calc.res.result = calc.arg.result
       /\ calc.res.err = calc.arg.err /\ calc.res.isProcessed
       /\ DOMAIN calc.res = DOMAIN calc.arg
  /\ calc.op = "CancelFrom" =>
       /\ calc.res.id = calc.arg.id /\ calc.res.createdAt = calc.arg.createdAt
       /\ calc.res.isSuccess = calc.arg.isSuccess /\ calc.res.isCancel = calc.arg.isCancel
       /\ calc.res.err = calc.arg.err

C27_Witness ==
  /\ calc.op = "CancelFrom" /\ calc.n = MaxCalls
  /\ calc.arg.isProcessed /\ ~calc.arg.isSuccess /\ ~calc.arg.isCancel
  /\ calc.res.id = calc.arg.id /\ calc.res.createdAt = calc.arg.createdAt

\* The plain value the value-typed helpers emit for input i: brokenF of
\* the pending outcome, or the already-reduced item itself.
PlainOf(i) == IF Helper = "Value" THEN 0 - cfg.src[i].id ELSE cfg.src[i]

C28_Emitted ==
  (fpc = "idle" /\ Helper \in {"Value", "Pass"} /\ Required) =>
     /\ Len(received) = inHead - 1 - (IF pc[1] \in {"hUnproc", "hDrain"} THEN 1 ELSE 0)
     /\ \A k \in 1 .. Len(received) : received[k].o = PlainOf(k)
     /\ pc[1] = "done" => cfg.closedIn /\ inHead = N + 1

\* C28: with the drain toggle enabled the value-typed helpers emit one
\* plain value per remaining item, in order: brokenF(in) from
\* CancelRemainingValue / CancelRemainingValues, the item unchanged from
\* CancelResult / CancelResults; the stream variants return when their
\* input channel is closed and empty, and only then.
C28_PlainValues ==
  /\ []C28_Emitted
  /\ <>((fpc = "idle" /\ Helper \in {"Value", "Pass"} /\ Required /\ cfg.closedIn)
          => pc[1] = "done")

C28_Witness ==
  /\ fpc = "idle" /\ Helper = "Value" /\ Required /\ Pending = 1
  /\ N = 3 /\ pc[1] = "done" /\ Len(received) = 3
  /\ \A k \in 1 .. 3 : received[k].o = 0 - cfg.src[k].id
  /\ received[1].o # received[2].o /\ received[2].o # received[3].o

C28_WitnessPass ==
  /\ fpc = "idle" /\ Helper = "Pass" /\ Required /\ Pending = 0
  /\ N = 3 /\ pc[1] = "done" /\ received[3].o = cfg.src[3]

\* The first goroutine's step takes its select's ctx.Done() case, or finds
\* ctx.Err() set: with an item pulled it enters OnCancelValue, with none
\* OnCancelValues, and nothing is handed to the second goroutine.
CancelStep(first, held) ==
  /\ cancelled /\ gval' = gval /\ gpc' = gpc /\ finals' = finals
  /\ IF HasHandlers
     THEN fpc' = held /\ flog' = Append(flog, first)
     ELSE fpc' = "done" /\ fchClosed' /\ flog' = flog

\* What C29 says of every step and state of the first goroutine.
C29_InOrder ==
  /\ [][/\ (fpc = "entry" /\ fpc' # "entry") =>
             \/ ~cancelled /\ fpc' = "recv" /\ flog' = flog
             \/ CancelStep("OnCancelValues", "hValues") /\ srcHead' = srcHead
        /\ (fpc = "recv" /\ fpc' # "recv") =>
             \/ /\ ~cancelled /\ srcHead' = srcHead + 1 /\ fcur' = srcHead
                /\ fpc' = "send" /\ flog' = flog
             \/ /\ srcHead' = srcHead + 1 /\ fcur' = srcHead
                /\ CancelStep("OnCancelValue", "hValue")
             \/ srcHead > N /\ srcHead' = srcHead /\ fpc' = "done" /\ flog' = flog
             \/ CancelStep("OnCancelValues", "hValues") /\ srcHead' = srcHead
        /\ (fpc = "send" /\ fpc' # "send") =>
             \/ fpc' = "recv" /\ gval' = fval /\ flog' = flog
             \/ CancelStep("OnCancelValue", "hValue") /\ fcur' = fcur
        /\ (fpc = "hValue" /\ fpc' # "hValue") =>
             /\ fpc' = "hValues" /\ flog' = Append(flog, "OnCancelValues")
             /\ fcur' = fcur /\ srcHead' = srcHead
             /\ IF Required THEN gval' = 0 - cfg.src[fcur].id
                ELSE gval' = gval /\ gpc' = gpc]_vars
  /\ [](/\ flog \in {<< >>, << "OnCancelValue" >>, << "OnCancelValues" >>,
                     << "OnCancelValue", "OnCancelValues" >>}
        /\ flog = << "OnCancelValue" >> <=> fpc = "hValue"
        /\ flog # << >> => fpc \in {"hValue", "hValues", "hValuesSend", "done"}
        /\ (flog # << >> /\ fpc = "done") => fchClosed)

\* C29: the first goroutine of Finalizing, once it observed cancellation,
\* runs its handlers to their end and terminates: OnCancelValue and then
\* OnCancelValues if it had pulled an item, OnCancelValues alone if not.
C29_ValueThenValues ==
  /\ (flog = << "OnCancelValue" >>) ~>
        (flog = << "OnCancelValue", "OnCancelValues" >> /\ fpc = "done")
  /\ (flog = << "OnCancelValues" >>) ~> (fpc = "done")

\* C30: the second goroutine of Finalizing, once its inner select took
\* ctx.Done(), has run OnCancelResult and then OnCancelResults when it
\* returns and closes the output.
C30_ResultThenResults ==
  (HasHandlers /\ gpc = "done" /\ glog # << >> /\ glog[1] = "OnCancelResult") =>
     glog = << "OnCancelResult", "OnCancelResults" >>

\* What the second goroutine does: one handler at most, OnCancelResult from
\* the inner select, OnCancelResults from the outer one.
C30_OneHandler ==
  /\ glog \in {<< >>, << "OnCancelResult" >>, << "OnCancelResults" >>}
  /\ glog = << "OnCancelResult" >> => gpc \in {"hResult", "done"}
  /\ glog = << "OnCancelResults" >> => gpc \in {"hResults", "hResultsSend", "done"}

\* C31: onSuccessResult is called once for every value the forwarding loop
\* of Finalizing sent on out, after the send and with that value, whatever
\* outcome the value was reduced from, and for nothing else.
C31_ObserverPerSend ==
  /\ [][fsucc' # fsucc =>
          /\ gpc = "succ" /\ gpc' = "recv"
          /\ fsucc' = Append(fsucc, gval)
          /\ Len(fsent) = Len(fsucc) + 1 /\ fsent[Len(fsent)] = gval
          /\ finals # << >> /\ finals[Len(finals)] = gval]_vars
  /\ [](/\ ~HasOnSuccess => fsucc = << >>
        /\ HasOnSuccess => Len(fsent) = Len(fsucc) + (IF gpc = "succ" THEN 1 ELSE 0)
        /\ \A k \in 1 .. Len(fsucc) : k <= Len(fsent) /\ fsucc[k] = fsent[k]
        /\ (HasOnSuccess /\ gpc = "done") => fsucc = fsent)

C31_Witness ==
  /\ fpc = "done" /\ gpc = "done" /\ HasOnSuccess /\ ~cancelled /\ NStages = 0
  /\ N = 3 /\ cfg.src[1].isSuccess /\ cfg.src[3].isCancel
  /\ ~cfg.src[2].isSuccess /\ ~cfg.src[2].isCancel
  /\ Len(fsucc) = 3 /\ fsucc = finals

\* The loops of the tiny chain, body first and predicate first.
UntilOps == {"RepeatUntil", "RepeatChainUntil"}
WhileOps == {"While", "WhileChain"}

\* How often the loop of the last call ran its body: every run builds one
\* result, with the ids 10 * n, 10 * n + 1, ...
BodyRuns == IF calc.res.id = calc.arg.id THEN 0 ELSE calc.res.id - 10 * calc.n + 1

\* How often a body f has to run from the value v under the predicate
\* "below 3" before the predicate is false on the current value or the body
\* has produced a failure or a processed result; `first`: the body runs
\* once before the predicate is asked.
RunsDue(f, v, first) ==
  IF ~first /\ v >= 3 THEN 0
  ELSE IF f = "inc" THEN (IF v >= 2 THEN 1 ELSE 3 - v)
  ELSE IF f = "failAt2" THEN (IF v >= 2 THEN 1 ELSE 3 - v)
  ELSE 1

\* C32: from a succeeded, unprocessed result RepeatUntil runs its body once
\* and then again while the result stays succeeded and unprocessed and
\* until(value) is true; While runs it as often as the predicate holds on
\* the current value, not at all if it is false at the start; both stop
\* after the iteration that yields a failure or a processed result and
\* return that result.
C32_LoopRuns ==
  (calc.op \in UntilOps \cup WhileOps /\ calc.arg.isSuccess /\ ~calc.arg.isProcessed) =>
     LET v == calc.arg.result
         k == RunsDue(calc.f, v, calc.op \in UntilOps)
         stopped == ~calc.res.isSuccess \/ calc.res.isProcessed
     IN /\ BodyRuns = k
        /\ calc.op \in UntilOps => k >= 1
        /\ k = 0 => calc.res = calc.arg /\ calc.calls = 1
        /\ calc.calls = k + (IF calc.op \in UntilOps
                             THEN (IF stopped THEN k - 1 ELSE k)
                             ELSE (IF stopped THEN k ELSE k + 1))
        /\ (calc.f = "inc" /\ k > 0) =>
              /\ calc.res.isSuccess /\ ~calc.res.isProcessed
              /\ calc.res.result = v + k /\ ~(calc.res.result < 3)
        /\ calc.f = "mark" =>
              (k = 1 => calc.res.isSuccess /\ calc.res.isProcessed /\ calc.res.result = v + 1)
        /\ calc.f \in {"fail", "failAt2"} =>
              (k > 0 => ~calc.res.isSuccess /\ ~calc.res.isCancel /\ calc.res.err = "boom")
        /\ calc.f = "deadline" => (k > 0 => calc.res.isCancel /\ ~calc.res.isSuccess)

C32_Witness ==
  /\ calc.op = "While" /\ calc.f = "failAt2"
  /\ calc.arg.isSuccess /\ ~calc.arg.isProcessed /\ calc.arg.result = 1
  /\ BodyRuns = 2 /\ ~calc.res.isSuccess /\ calc.calls = 4

C32_WitnessNone ==
  /\ calc.op = "While" /\ calc.arg.isSuccess /\ ~calc.arg.isProcessed
  /\ calc.arg.result = 3 /\ BodyRuns = 0 /\ calc.res = calc.arg

\* Some worker still waits for the outcome of the adapter it called on
\* input i.
Awaited(i) == \E w \in Workers : cur[w] = i /\ pc[w] = "stage"

\* C33: no goroutine of an adapter is left at a send nobody will take:
\* goroutine A at ch <- ... after goroutine B has left its select, goroutine
\* B at out <- pr after the worker that called the adapter has left its own.
C33_NoStrandedSend ==
  \A i \in Idx :
    /\ ~(apc[i] = "send" /\ bpc[i] \in {"cb", "closing", "done"})
    /\ ~(bpc[i] = "deliver" /\ ~Awaited(i))

\* The same as a property of the runs: both goroutines of every adapter
\* that was called return.
C33_BothReturn ==
  \A i \in 1 .. MaxInputs :
    []((i \in Idx /\ apc[i] = "start") =>
         <>(i \in Idx /\ apc[i] = "done" /\ bpc[i] = "done"))

\* C34: while ctx is not cancelled a worker has returned only on an input
\* channel that is closed and empty, so the pool's output is closed only
\* when every input was pulled.
C34_OnlyOnExhaustion ==
  ~cancelled =>
     /\ \A w \in Workers : pc[w] = "done" => InputExhausted
     /\ outClosed => inHead = N + 1

\* The events of input i: its output was sent by the loop, it was handed
\* to OnCancelUnprocessed, it was handed with its output to
\* OnCancelProcessed; and the received items made for input i.
LoopSends(i) ==
  Cardinality({k \in 1 .. Len(received) :
                 received[k].via = "fwd" /\ received[k].o.id % (MaxInputs + 1) = i})
HandlerCalls(h, i) ==
  IF \E w \in Workers : cur[w] = i
  THEN Invoked(CHOOSE w \in Workers : cur[w] = i, h)
  ELSE 0
ItemsOf(i) ==
  Cardinality({k \in 1 .. Len(received) : received[k].o.id % (MaxInputs + 1) = i})

\* C35: of the three events of a pulled input (its output sent by the loop,
\* OnCancelUnprocessed, OnCancelProcessed) at most one occurs, and at most
\* one received item was made for it.
C35_OneEventPerInput ==
  \A i \in Idx :
    /\ Cardinality({w \in Workers : cur[w] = i /\ pc[w] # "next"}) <= 1
    /\ LoopSends(i) + HandlerCalls("OnCancelUnprocessed", i)
         + HandlerCalls("OnCancelProcessed", i) <= 1
    /\ ItemsOf(i) <= 1

C35_Witness ==
  /\ fpc = "idle" /\ calc.op = "none" /\ HasHandlers /\ N = 2 /\ AllDone /\ Required
  /\ LoopSends(1) = 1 /\ HandlerCalls("OnCancelProcessed", 2) = 1
  /\ ItemsOf(1) = 1 /\ ItemsOf(2) = 1

\* Worker w stands at the send of a drain helper: outCh <- marker in
\* CancelRemainingResult or in the range loop of CancelRemainingResults.
AtDrainSend(w) == pc[w] = "hDrain" \/ (pc[w] = "hUnproc" /\ Required)

\* C36: with the output collected by core.FromChanMany under the same ctx,
\* no worker stands at the send of a drain helper after the collector has
\* returned on ctx.Done().
C36_NoStrandedDrain ==
  (HasHandlers /\ Required /\ cfg.ckind = "ctx") =>
     \A w \in Workers : ~(cpc = "stopped" /\ AtDrainSend(w))

\* The same as a property of the runs: after cancellation every worker
\* returns and the pool's output is closed.
C36_DrainTerminates ==
  []((cancelled /\ HasHandlers /\ Required /\ cfg.ckind = "ctx")
        => <>(AllDone /\ outClosed))

\* C37: with the drain helpers as cancel handlers and the toggle enabled,
\* the first goroutine of Finalizing never stands at a send into ch after
\* the second goroutine, the only receiver, has returned.
C37_NoStrandedReduction ==
  (HasHandlers /\ Required) =>
     ~(gpc = "done" /\ fpc \in {"hValue", "hValuesSend"})

\* The same as a property of the runs: after cancellation both goroutines
\* return.
C37_BothReturn ==
  []((cancelled /\ HasHandlers /\ Required /\ fpc # "idle")
        => <>(fpc = "done" /\ gpc = "done"))

\* The value Finalizing's handlers make of the outcome o.
Reduced(o) ==
  IF o.isSuccess THEN OnSuccessFn(o.result)
  ELSE IF o.isCancel THEN OnCancelFn(o.err)
  ELSE OnErrorFn(o.err)

\* C38: with no cancellation the i-th value on the Finalizer's output is
\* the reduction of the i-th outcome it received from its input, whatever
\* the order in which the workers of the last stage produced them.
C38_OrderKept ==
  (~cancelled /\ fpc # "idle") =>
     /\ Len(finals) <= Len(frecv) /\ Len(frecv) <= Len(finals) + 2
     /\ \A k \in 1 .. Len(finals) : finals[k] = Reduced(frecv[k])

\* Two workers of the last stage hand the second input's outcome to the
\* Finalizer before the first input's, and the output follows that order.
C38_Witness ==
  /\ ~cancelled /\ NStages = 2 /\ cfg.lines = 2 /\ finClosed
  /\ Len(finals) = 2 /\ Len(frecv) = 2
  /\ ~cfg.src[1].isSuccess /\ ~cfg.src[1].isCancel /\ cfg.src[2].isCancel
  /\ frecv[1].isCancel /\ ~frecv[2].isCancel /\ ~frecv[2].isSuccess
  /\ finals[1] = Reduced(frecv[1]) /\ finals[2] = Reduced(frecv[2])
  /\ finals[1] # finals[2]

\* C39: mass.Validating does not panic, whatever the state of its input:
\* a Failed or Cancelled input, which carries no result, is handled like
\* a succeeded one.
C39_ValidatingNoPanic ==
  cfg.kind = "Validate" => panicked = "no"

-----------------------------------------------------------------------------
(* core.ToChanFromArgsResults: one goroutine sends the values of a list,  *)
(* each as a succeeded outcome, on an unbuffered channel, reports what it *)
(* did to the handlers that are set, and closes the channel on return.    *)

\* The length of the longest list handed to the source adapter.
MaxValues == 3

\* The handlers of ToChanHandlers that are not nil.
HandlerNames == {"OnStartFail", "OnSuccess", "OnBreak"}

\* The goroutine returns by `via`; the deferred close(in) runs.
ToChanReturn(via) == [toChan EXCEPT !.pc = "done", !.via = via, !.closed = TRUE]

\* The loop `for i, v := range values` goes on with the index i.
ToChanLoop(t, i) ==
  IF i <= Len(t.values) THEN [t EXCEPT !.pc = "select", !.i = i]
  ELSE [t EXCEPT !.pc = "done", !.via = "end", !.closed = TRUE]

\* if ctx.Err() != nil { OnStartFail(ctx, values); return }
ToChanEntry ==
  /\ toChan.pc = "entry"
  /\ toChan' =
       IF cancelled
       THEN [ToChanReturn("start") EXCEPT
               !.startFail = IF "OnStartFail" \in toChan.handlers
                             THEN Append(@, toChan.values) ELSE @]
       ELSE ToChanLoop(toChan, 1)
  /\ UNCHANGED << cfg, poolVars, pipeVars, calc >>

\* case in <- solo.Succeed(v): a reader takes the outcome.  The case can be
\* chosen with ctx cancelled too: select picks among the ready cases.
ToChanSend ==
  /\ toChan.pc = "select"
  /\ toChan' =
       LET t == [toChan EXCEPT
                   !.sent = Append(@, Success(toChan.values[toChan.i], toChan.i))]
       IN IF "OnSuccess" \in toChan.handlers
          THEN [t EXCEPT !.pc = "succ"]
          ELSE ToChanLoop(t, toChan.i + 1)
  /\ UNCHANGED << cfg, poolVars, pipeVars, calc >>

\* handlers.OnSuccess(ctx, v)
ToChanOnSuccess ==
  /\ toChan.pc = "succ"
  /\ toChan' =
       ToChanLoop([toChan EXCEPT !.succ = Append(@, toChan.values[toChan.i])],
                  toChan.i + 1)
  /\ UNCHANGED << cfg, poolVars, pipeVars, calc >>

\* Faulty variant: the rest starts after the value whose send was interrupted
ToChanBreakAfter ==
  /\ toChan.pc = "select" /\ cancelled
  /\ toChan' =
       [ToChanReturn("break") EXCEPT
          !.brk = IF "OnBreak" \in toChan.handlers
                  THEN Append(@, SubSeq(toChan.values, toChan.i + 1,
                                        Len(toChan.values)))
                  ELSE @]
  /\ UNCHANGED << cfg, poolVars, pipeVars, calc >>

\* case <-ctx.Done(): OnBreak(ctx, values[i:]); return
ToChanBreak ==
  /\ toChan.pc = "select" /\ cancelled
  /\ toChan' =
       [ToChanReturn("break") EXCEPT
          !.brk = IF "OnBreak" \in toChan.handlers
                  THEN Append(@, SubSeq(toChan.values, toChan.i, Len(toChan.values)))
                  ELSE @]
  /\ UNCHANGED << cfg, poolVars, pipeVars, calc >>

\* ToChanFromArgsResults(ctx, handlers, values...) is called, under a
\* context that is cancelled already or not: every list of up to MaxValues
\* values, every choice of the handlers that are set.
InitToChan ==
  /\ cfg = IdleConfig /\ PoolInit(IdleConfig) /\ PipeIdle /\ CalcIdle
  /\ \E vs \in SeqsUpTo(1 .. MaxValues, MaxValues) : \E hs \in SUBSET HandlerNames :
       toChan = [pc |-> "entry", values |-> vs, handlers |-> hs, i |-> 0,
                 sent |-> << >>, succ |-> << >>, brk |-> << >>,
                 startFail |-> << >>, via |-> "none", closed |-> FALSE]

NextToChan ==
  \/ ToChanEntry
  \/ ToChanSend
  \/ ToChanOnSuccess
  \/ ToChanBreak
  \/ CancelCtx

SpecToChan == InitToChan /\ [][NextToChan]_vars

\* The values of the outcomes sent so far.
SentValues == [k \in 1 .. Len(toChan.sent) |-> toChan.sent[k].result]

\* The values of the list from the index i on.
RestFrom(i) == SubSeq(toChan.values, i, Len(toChan.values))

\* C40: the source adapter accounts for every value exactly once.  What it
\* sent is a prefix of the list, in order, each value reported to OnSuccess;
\* OnBreak gets the rest from the value whose send was interrupted on,
\* OnStartFail the whole list; the channel is closed when it returns.
C40_EveryValueOnce ==
  toChan.pc # "idle" =>
    LET t == toChan
        sent == SentValues
    IN /\ Len(sent) <= Len(t.values)
       /\ \A k \in 1 .. Len(sent) : t.sent[k].isSuccess /\ sent[k] = t.values[k]
       /\ IF "OnSuccess" \in t.handlers
          THEN t.succ = SubSeq(sent, 1, Len(sent) - (IF t.pc = "succ" THEN 1 ELSE 0))
          ELSE t.succ = << >>
       /\ t.closed <=> t.pc = "done"
       /\ t.pc # "done" => t.brk = << >> /\ t.startFail = << >>
       /\ t.pc = "done" =>
            /\ t.via = "end" =>
                 sent = t.values /\ t.brk = << >> /\ t.startFail = << >>
            /\ t.via = "break" =>
                 /\ t.startFail = << >>
                 /\ Len(sent) < Len(t.values)
                 /\ t.brk = IF "OnBreak" \in t.handlers
                            THEN << RestFrom(Len(sent) + 1) >> ELSE << >>
                 /\ "OnBreak" \in t.handlers => sent \o t.brk[1] = t.values
            /\ t.via = "start" =>
                 /\ sent = << >> /\ t.brk = << >>
                 /\ t.startFail = IF "OnStartFail" \in t.handlers
                                  THEN << t.values >> ELSE << >>

\* Cancelled while the second of three values waits for a reader.
C40_Witness ==
  /\ toChan.pc = "done" /\ toChan.via = "break" /\ toChan.closed
  /\ toChan.handlers = HandlerNames
  /\ toChan.values = << 1, 2, 3 >>
  /\ SentValues = << 1 >> /\ toChan.succ = << 1 >>
  /\ toChan.brk = << << 2, 3 >> >>

\* The context is cancelled before the call.
C40_WitnessStart ==
  /\ toChan.pc = "done" /\ toChan.via = "start" /\ toChan.closed
  /\ toChan.handlers = HandlerNames
  /\ toChan.values = << 1, 2, 3 >>
  /\ toChan.sent = << >> /\ toChan.startFail = << << 1, 2, 3 >> >>

====
